---------------------------- MODULE Spec2Model ----------------------------
(***************************************************************************)
(* Realtime voice-session pipeline of talk-to-remember.                    *)
(*                                                                         *)
(*  - SessionRelay: setupLiveProxy in src/backend/test-gemini-tool.mjs,    *)
(*    one accepted client connection with its upstream socket, outbound    *)
(*    queue and edit-confirmation handling.                                *)
(*  - SessionClient: class LiveSession in src/frontend/src/lib/            *)
(*    liveSession.ts, one instance (the callers build a fresh instance     *)
(*    for every connection attempt and call connect() on it once).         *)
(*                                                                         *)
(* Each event handler runs to completion (single-threaded event loop), so  *)
(* one handler, or one segment of an async function between two awaits,    *)
(* is one action.                                                          *)
(***************************************************************************)
EXTENDS Integers, Sequences, FiniteSets, TLC

(***************************************************************************)
(* Bounds of the model.                                                    *)
(***************************************************************************)
\* Client frames one relay connection receives.
MaxClientFrames == 3
\* Messages the upstream sends on one relay connection.
MaxUpstreamMsgs == 1
\* Capacity of the relay's outbound queue: test-gemini-tool.mjs:80 reads it
\* from the environment (Number(process.env.MAX_QUEUE_MESSAGES || 120)); the
\* model runs the relay with a small configured capacity.
MAX_QUEUE_MESSAGES == 2
\* Messages the session client receives on its socket.
MaxServerMsgs == 2
\* Frames the session client puts on its socket after the setup frame.
MaxSent == 1
\* startAudioInput() calls that get as far as asking for the microphone.
MaxAudioStarts == 1

(***************************************************************************)
(* SessionRelay state (closure variables of wss.on("connection")).         *)
(***************************************************************************)
VARIABLES
    clientWs,            \* clientWs.readyState
    geminiWs,            \* geminiWs.readyState, "NONE" while geminiWs is null
    geminiConnected,
    heartbeatTimer,      \* TRUE while heartbeatTimer holds an interval
    liveTimers,          \* intervals set and not cleared
    pings,               \* one entry per run of the interval callback: the
                         \* sockets it pinged and what state it found
    lastPartialTranscriptByRole,
    editInProgress,
    editVersionCounter,
    queue,
    editCalls,           \* runImageEdit calls awaited by handleConfirmEdit
    toClient,            \* what was done on clientWs, in order: the proxy,
                         \* error, upstream and transcript frames handed to
                         \* send, and close(code) as a "close" entry
    appEvents,           \* the EDIT_* application events handed to
                         \* clientWs.send, in order
    toGemini,            \* frames handed to geminiWs.send, in order
    recvCount,           \* client frames received so far
    confirmCount,        \* CONFIRM_EDIT frames received so far
    pushed,              \* frames pushed on the queue since it was last flushed
    flushed,             \* frames the upstream's open handler took off the queue
    upCount,             \* upstream messages received so far
    editLog,             \* instructions runImageEdit was invoked with
    handshakeRelayed,    \* a setupComplete message was relayed to the client
    clientGone           \* the client socket's close or error event was delivered

relayVars == <<clientWs, geminiWs, geminiConnected, heartbeatTimer,
               liveTimers, pings,
               lastPartialTranscriptByRole, editInProgress, editVersionCounter,
               queue, editCalls, toClient, appEvents, toGemini, recvCount,
               confirmCount,
               pushed, flushed, upCount, editLog, handshakeRelayed,
               clientGone>>

(***************************************************************************)
(* SessionClient state (fields of one LiveSession instance) and the state  *)
(* of the browser objects it owns.                                         *)
(***************************************************************************)
VARIABLES
    state,               \* ConnectionState
    ws,                  \* TRUE while this.ws is not null
    sock,                \* readyState of the WebSocket connect() created:
                         \* "NONE" before, "ABORTING" after close() on a
                         \* connecting socket, "CLOSING" once closing or
                         \* failed, "CLOSED" once its close event was delivered
    audioContext,        \* TRUE while this.audioContext is not null
    setupCompleted,
    intentionalClose,
    connectResolve,      \* TRUE while this.connectResolve is not null
    setupTimeout,        \* TRUE while this.setupTimeout is not null
    timerPending,        \* the setup timer was armed and has not fired yet
    promise,             \* the promise connect() returned: "none" before the
                         \* call, then "pending", "true" or "false"
    mediaStream,         \* TRUE while this.mediaStream is not null
    inputAudioContext,   \* TRUE while this.inputAudioContext is not null
    processorNode,       \* TRUE while this.processorNode is not null
    ambientNoiseFloorRms,    \* in units of 1e-6
    speechGateOpenUntilMs,
    isPlaying,
    audioQueue,
    scheduledSources,
    nextPlayTime,
    liveSources,         \* buffer sources whose ended event has not fired yet
    currentTime,         \* audioContext.currentTime, in buffer-duration ticks
    bufferSources,       \* every buffer source created so far, by id: the
                         \* interval start(when) .. when + buffer.duration
    stoppedSources,      \* ids of the sources stop() was called on
    micCalls,            \* startAudioInput() calls awaiting getUserMedia
    liveProcessors,      \* processor nodes whose onaudioprocess is attached
    startCount,          \* startAudioInput() calls that asked for the microphone
    nowMs,               \* performance.now()
    float32Data,         \* the samples of one captured buffer, each in units
                         \* of 1 / SampleDen
    int16Data,           \* the bytes of that buffer as PCM16, little-endian
    float32Array,        \* the samples decoded from those bytes, each in
                         \* units of 1 / 32768
    frameLog,            \* one entry per onaudioprocess callback, in order:
                         \* its time, what sendAudioChunk decided, the
                         \* frame it sent and the level it reported
    sent,                \* frames handed to ws.send, in order
    callbackLog,         \* onConnected, onDisconnected, onError, onAppEvent,
                         \* onPlaybackComplete
                         \* invocations, in order
    stateTrace,          \* the values state took, in order
    msgCount,            \* messages received on the socket so far
    setupSeen,           \* a setupComplete message was received on the socket
    callTick             \* flips whenever an outbound method or an audio
                         \* callback is entered

codecVars == <<float32Data, int16Data, float32Array>>

clientVars == <<state, ws, sock, audioContext, setupCompleted, intentionalClose,
                connectResolve, setupTimeout, timerPending, promise, mediaStream,
                inputAudioContext, processorNode, ambientNoiseFloorRms,
                speechGateOpenUntilMs, isPlaying, audioQueue, scheduledSources,
                nextPlayTime, liveSources, currentTime, bufferSources,
                stoppedSources, micCalls, liveProcessors, startCount,
                nowMs, codecVars, frameLog, sent, callbackLog, stateTrace,
                msgCount, setupSeen, callTick>>

(***************************************************************************)
(* State of the chat page (ImmersiveChat) that owns the session: its React *)
(* state and refs, the position of startLiveSession in its fallback        *)
(* ladder, and what the page can observe of the session it holds.          *)
(***************************************************************************)
VARIABLES
    sessionState,        \* "idle", "connecting", "listening", "speaking",
                         \* "editing", "paused"
    isEditing,           \* isEditing / isEditingRef
    pendingEditPrompt,   \* pendingEditPrompt / pendingEditPromptRef, "" is null
    showEditConfirm,     \* the confirm prompt is to be rendered
    queuedEditConfirm,   \* the prompt waits for the end of playback
    isPaused,            \* isPaused / isPausedRef
    assistantAudioInCurrentTurn,
    activeImage,         \* base64 payload of the active image version
    liveSessionRef,      \* instance number of the session held, 0 is null
    sessionMode,         \* "proxy" or "direct": useProxy of that instance
    sessionConnected,    \* that instance's state is "connected"
    capturing,           \* that instance has mediaStream, processorNode and
                         \* inputAudioContext
    micRequests,         \* callers of startAudioInput awaiting getUserMedia
    ladder,              \* where startLiveSession stands
    proxyConfigured,     \* Boolean(getBackendWsUrl())
    attempts,            \* the connect() calls made so far, in order
    intentInFlight,      \* /api/extract-edit-intent requests awaiting their reply
    pageInputs,          \* user messages, REQUIRE_EDIT_CONFIRM events, pause and
                         \* confirm presses so far
    pageSent,            \* frames the session handed to its socket, in order
    appEventsSeen,       \* relay events delivered to onAppEvent so far
    confirmLog,          \* each confirm press: the instruction, and whether
                         \* capture ran when confirmEdit was called
    overwritten,         \* a detected instruction replaced a different one
    transcriptEntries,   \* the transcript log
    pendingCloses,       \* instances whose socket was closed by disconnect()
                         \* and has not delivered its close event yet
    framesSeen           \* frames of the relay the session has received
                         \* that was pending

pageVars == <<sessionState, isEditing, pendingEditPrompt, showEditConfirm,
              queuedEditConfirm, isPaused, assistantAudioInCurrentTurn,
              activeImage, liveSessionRef, sessionMode, sessionConnected,
              capturing, micRequests, ladder, proxyConfigured, attempts,
              intentInFlight, pageInputs, pageSent,
              appEventsSeen, confirmLog, overwritten, transcriptEntries,
              pendingCloses, framesSeen>>

vars == <<relayVars, clientVars, pageVars>>

(***************************************************************************)
(* Inputs of the relay.                                                    *)
(***************************************************************************)
\* Instruction and image strings a CONFIRM_EDIT frame may carry.
Instructions == {" ", "make  it  warmer"}
Images == {"AAA", " "}

\* Encodings of a forwarded client frame: JSON text as JSON.stringify would
\* print it, JSON text with insignificant whitespace, and a non-JSON payload.
Encodings == {"compact", "spaced", "raw"}
DataEncodings == {"spaced", "raw"}

ClientFrames ==
    [type : {"CONFIRM_EDIT"}, enc : {"compact"}, instr : Instructions, img : Images]
    \cup [type : {"CANCEL_EDIT_CONFIRM"}, enc : {"compact"}, instr : {""}, img : {""}]
    \cup [type : {"DATA"}, enc : DataEncodings, instr : {""}, img : {""}]

\* Transcript events extractTranscriptEvents finds in an upstream message.
TranscriptBatches ==
    { <<[role |-> "user", text |-> "hi", isFinal |-> FALSE]>>,
      <<[role |-> "user", text |-> "hi", isFinal |-> TRUE]>> }

UpstreamMsgs ==
    [kind : {"setupComplete"}, events : {<<>>}]
    \cup [kind : {"content"}, events : TranscriptBatches]

\* Upstream serverContent messages of one transcript session.
MaxTranscriptMsgs == 4

\* A transcription payload, and the missing one.
Payload(text, final) == [text |-> text, final |-> final]
NoPayload == Payload("", "absent")
\* A model-turn part with text.
Part(text, thought) == [text |-> text, thought |-> thought]

\* serverContent as the relay reads it: the resolved input and output
\* transcription payloads, the final flag of inputTranscription taken as a
\* fallback, the model-turn parts and the turn-complete flag.
Upstream(input, inputFallbackFinal, parts, output, turnComplete) ==
    [input |-> input, inputFallbackFinal |-> inputFallbackFinal,
     parts |-> parts, output |-> output, turnComplete |-> turnComplete]

\* The same partial of both roles, a final and another partial of the user, a
\* final by the fallback flag with a final of the assistant, the assistant's text
\* three times in one message, a thought and a tagged part next to a
\* transcription at the end of a turn, and a final part next to a partial
\* transcription of the same text after a blank input.
UpstreamContents ==
    { Upstream(Payload("hi", "absent"), FALSE, <<>>, Payload("hi", "false"), FALSE),
      Upstream(Payload(" hi ", "true"), FALSE, <<>>, NoPayload, FALSE),
      Upstream(Payload("hi  there", "false"), TRUE, <<>>, NoPayload, FALSE),
      Upstream(Payload("hi", "absent"), TRUE, <<>>, Payload("hi", "true"), FALSE),
      Upstream(NoPayload, FALSE, <<Part("hi", FALSE), Part(" hi ", FALSE)>>,
               Payload("hi", "absent"), FALSE),
      Upstream(NoPayload, FALSE,
               <<Part("<think>x</think>", FALSE), Part("hi there", TRUE)>>,
               Payload("<think>x</think> hi", "absent"), TRUE),
      Upstream(Payload(" ", "true"), FALSE, <<Part("hi", FALSE)>>,
               Payload("hi", "false"), TRUE) }

UpstreamCloseCodes == {1000, 1008}

(***************************************************************************)
(* Helpers of the relay.                                                   *)
(***************************************************************************)
Frame(k, a, b, n) == [k |-> k, a |-> a, b |-> b, n |-> n]

\* safeSendJson without its readyState check.
safeSendJson_AnyState(socket, log, payload) == Append(log, payload)

safeSendJson(socket, log, payload) ==
    IF socket # "OPEN" THEN log ELSE Append(log, payload)

\* normalizeWhitespace that collapses runs of whitespace without trimming.
normalizeWhitespace_NoTrim(value) ==
    CASE value = "make  it  warmer" -> "make it warmer"
      [] value = "hi  there" -> "hi there"
      [] OTHER -> value

normalizeWhitespace(value) ==
    CASE value = " " -> ""
      [] value = "make  it  warmer" -> "make it warmer"
      [] value = " hi " -> "hi"
      [] value = "hi  there" -> "hi there"
      [] OTHER -> value

sanitizeAssistantText(value) ==
    CASE value = "<think>x</think>" -> ""
      [] value = "<think>x</think> hi" -> "hi"
      [] OTHER -> normalizeWhitespace(value)

\* readTranscriptionText(payload); a missing payload has the text "".
readTranscriptionText(payload) == normalizeWhitespace(payload.text)

\* readTranscriptionFinalFlag(payload) ?? fallback: the payload's flag is
\* "true", "false" or "absent" (missing, or not a boolean).
FinalFlag(payload, fallback) ==
    IF payload.final = "absent" THEN fallback ELSE payload.final = "true"

\* pushEvent(role, text, isFinal) inside extractTranscriptEvents.
pushEvent(events, role, text, isFinal) ==
    LET processText == IF role = "ai" THEN sanitizeAssistantText(text) ELSE text
    IN  IF processText = "" THEN events
        ELSE Append(events, [role |-> role, text |-> processText,
                             isFinal |-> isFinal])

\* The loop over modelTurn.parts inside extractTranscriptEvents.
RECURSIVE pushParts(_, _, _)
pushParts(events, parts, turnComplete) ==
    IF parts = <<>> THEN events
    ELSE pushParts(IF Head(parts).thought THEN events
                   ELSE pushEvent(events, "ai", Head(parts).text, turnComplete),
                   Tail(parts), turnComplete)

\* The last loop of extractTranscriptEvents handing on every event: no Set
\* of keys.
RECURSIVE dedupe_KeepsAll(_, _)
dedupe_KeepsAll(events, seen) ==
    IF events = <<>> THEN <<>>
    ELSE <<Head(events)>> \o dedupe_KeepsAll(Tail(events), seen)

\* The last loop of extractTranscriptEvents: the first event of every key
\* role|isFinal|text.
RECURSIVE dedupe(_, _)
dedupe(events, seen) ==
    IF events = <<>> THEN <<>>
    ELSE IF Head(events) \in seen THEN dedupe(Tail(events), seen)
    ELSE <<Head(events)>> \o dedupe(Tail(events), seen \cup {Head(events)})

\* extractTranscriptEvents(upstreamMessage) for a message with serverContent.
extractTranscriptEvents(raw) ==
    LET userText == readTranscriptionText(raw.input)
        fromInput ==
            IF userText = "" THEN <<>>
            ELSE pushEvent(<<>>, "user", userText,
                           FinalFlag(raw.input, raw.inputFallbackFinal))
        fromParts == pushParts(fromInput, raw.parts, raw.turnComplete)
        aiTranscript == readTranscriptionText(raw.output)
        fromOutput ==
            IF aiTranscript = "" THEN fromParts
            ELSE pushEvent(fromParts, "ai", aiTranscript,
                           FinalFlag(raw.output, raw.turnComplete))
    IN  dedupe(fromOutput, {})

\* JSON.stringify(JSON.parse(data)) for a JSON payload; a payload that does
\* not parse is kept as it is.
Outbound(f) ==
    [id |-> f.id, type |-> f.type,
     enc |-> IF f.enc \in {"compact", "spaced"} THEN "compact" ELSE f.enc,
     recv |-> f.enc]

IsForwardable(f) == f.type = "DATA"

\* The flush loop taking the newest queued frame first (pop instead of shift).
RECURSIVE FlushQueue_NewestFirst(_, _, _)
FlushQueue_NewestFirst(q, out, readyState) ==
    IF Len(q) > 0 /\ readyState = "OPEN"
    THEN FlushQueue_NewestFirst(SubSeq(q, 1, Len(q) - 1),
                                Append(out, q[Len(q)]), readyState)
    ELSE <<q, out>>

RECURSIVE FlushQueue(_, _, _)
FlushQueue(q, out, readyState) ==
    IF Len(q) > 0 /\ readyState = "OPEN"
    THEN FlushQueue(Tail(q), Append(out, Head(q)), readyState)
    ELSE <<q, out>>

\* The loop over transcriptEvents that remembers a partial across a final.
RECURSIVE RelayTranscripts_FinalKeepsPartial(_, _, _, _)
RelayTranscripts_FinalKeepsPartial(events, lp, socket, log) ==
    IF events = <<>> THEN <<lp, log>>
    ELSE LET e == Head(events) IN
         IF ~e.isFinal /\ lp[e.role] = e.text
         THEN RelayTranscripts_FinalKeepsPartial(Tail(events), lp, socket, log)
         ELSE RelayTranscripts_FinalKeepsPartial(
                Tail(events),
                [lp EXCEPT ![e.role] = IF e.isFinal THEN lp[e.role] ELSE e.text],
                socket,
                safeSendJson(socket, log,
                    Frame("transcript", e.role, e.text, IF e.isFinal THEN 1 ELSE 0)))

\* The loop over transcriptEvents in geminiWs.on("message"): <<lastPartial, log>>.
RECURSIVE RelayTranscripts(_, _, _, _)
RelayTranscripts(events, lp, socket, log) ==
    IF events = <<>> THEN <<lp, log>>
    ELSE LET e == Head(events) IN
         IF ~e.isFinal /\ lp[e.role] = e.text
         THEN RelayTranscripts(Tail(events), lp, socket, log)
         ELSE RelayTranscripts(
                Tail(events),
                [lp EXCEPT ![e.role] = IF e.isFinal THEN "" ELSE e.text],
                socket,
                safeSendJson(socket, log,
                    Frame("transcript", e.role, e.text, IF e.isFinal THEN 1 ELSE 0)))

\* stopHeartbeat()
stopHeartbeat ==
    /\ heartbeatTimer' = FALSE
    /\ liveTimers' = IF heartbeatTimer THEN liveTimers - 1 ELSE liveTimers
    /\ UNCHANGED pings

\* startHeartbeat(): stopHeartbeat(), then setInterval.
startHeartbeat ==
    /\ heartbeatTimer' = TRUE
    /\ liveTimers' = (IF heartbeatTimer THEN liveTimers - 1 ELSE liveTimers) + 1
    /\ UNCHANGED pings

\* geminiWs.close() / closeBoth's guarded geminiWs.close(code, reason)
CloseSocket(readyState) ==
    IF readyState \in {"CONNECTING", "OPEN"} THEN "CLOSING" ELSE readyState

(***************************************************************************)
(* Init of the relay: the state when wss.on("connection") returns.         *)
(***************************************************************************)
RelayInit ==
    /\ \E keyOk \in BOOLEAN :
         IF keyOk
         THEN /\ geminiWs = "CONNECTING"
              /\ clientWs = "OPEN"
              /\ toClient = <<Frame("proxy", "connecting_upstream", "", 0)>>
         ELSE \* getGeminiApiKey() threw: error frame, closeBoth(1011), no handlers
              /\ geminiWs = "NONE"
              /\ clientWs = "CLOSING"
              /\ toClient = <<Frame("error", "missing_key", "", 0),
                              Frame("close", "", "", 1011)>>
    /\ geminiConnected = FALSE
    /\ heartbeatTimer = FALSE
    /\ liveTimers = 0
    /\ pings = <<>>
    /\ lastPartialTranscriptByRole = [user |-> "", ai |-> ""]
    /\ editInProgress = FALSE
    /\ editVersionCounter = 0
    /\ queue = <<>>
    /\ editCalls = <<>>
    /\ toGemini = <<>>
    /\ recvCount = 0
    /\ confirmCount = 0
    /\ appEvents = <<>>
    /\ pushed = <<>>
    /\ flushed = 0
    /\ upCount = 0
    /\ editLog = <<>>
    /\ handshakeRelayed = FALSE
    /\ clientGone = FALSE

\* handleConfirmEdit without its editInProgress early return.
handleConfirmEdit_NoInFlightGuard(confirmPayload) ==
    LET imageBase64 == normalizeWhitespace(confirmPayload.img)
        instruction == normalizeWhitespace(confirmPayload.instr)
    IN  IF imageBase64 = "" \/ instruction = ""
        THEN /\ appEvents' = safeSendJson(clientWs, appEvents,
                   Frame("EDIT_FAILED", "",
                         "Missing image data or edit instruction.", 0))
             /\ UNCHANGED <<editInProgress, editCalls, editLog>>
        ELSE /\ editInProgress' = TRUE
             /\ appEvents' = safeSendJson(clientWs, appEvents,
                   Frame("EDIT_STATUS", instruction, "editing", 0))
             /\ editCalls' = Append(editCalls,
                   [instruction |-> instruction, imageBase64 |-> imageBase64])
             /\ editLog' = Append(editLog, instruction)

(***************************************************************************)
(* handleConfirmEdit up to its await: the part of clientWs.on("message")   *)
(* that runs for a CONFIRM_EDIT frame.                                     *)
(***************************************************************************)
handleConfirmEdit(confirmPayload) ==
    IF editInProgress
    THEN UNCHANGED <<editInProgress, editCalls, editLog, appEvents>>
    ELSE LET imageBase64 == normalizeWhitespace(confirmPayload.img)
             instruction == normalizeWhitespace(confirmPayload.instr)
         IN  IF imageBase64 = "" \/ instruction = ""
             THEN /\ appEvents' = safeSendJson(clientWs, appEvents,
                        Frame("EDIT_FAILED", "",
                              "Missing image data or edit instruction.", 0))
                  /\ UNCHANGED <<editInProgress, editCalls, editLog>>
             ELSE /\ editInProgress' = TRUE
                  /\ appEvents' = safeSendJson(clientWs, appEvents,
                        Frame("EDIT_STATUS", instruction, "editing", 0))
                  /\ editCalls' = Append(editCalls,
                        [instruction |-> instruction, imageBase64 |-> imageBase64])
                  /\ editLog' = Append(editLog, instruction)

\* The forwarding tail evicting only once the queue is over its capacity.
ForwardOrQueue_EvictAfterFull(outbound) ==
    IF geminiConnected /\ geminiWs = "OPEN"
    THEN /\ toGemini' = Append(toGemini, outbound)
         /\ UNCHANGED <<queue, pushed>>
    ELSE /\ queue' = Append(IF Len(queue) > MAX_QUEUE_MESSAGES
                            THEN Tail(queue) ELSE queue, outbound)
         /\ pushed' = Append(pushed, outbound)
         /\ UNCHANGED toGemini

\* The forwarding tail of clientWs.on("message").
ForwardOrQueue(outbound) ==
    IF geminiConnected /\ geminiWs = "OPEN"
    THEN /\ toGemini' = Append(toGemini, outbound)
         /\ UNCHANGED <<queue, pushed>>
    ELSE /\ queue' = Append(IF Len(queue) >= MAX_QUEUE_MESSAGES
                            THEN Tail(queue) ELSE queue, outbound)
         /\ pushed' = Append(pushed, outbound)
         /\ UNCHANGED toGemini

\* The message handler that answers a cancel verb and passes it on as well.
onClientMessage_ForwardsCancel(f) ==
    CASE f.type = "CONFIRM_EDIT" ->
           /\ handleConfirmEdit(f)
           /\ UNCHANGED <<queue, toGemini, pushed>>
      [] f.type = "CANCEL_EDIT_CONFIRM" ->
           /\ appEvents' = safeSendJson(clientWs, appEvents,
                  Frame("EDIT_CONFIRM_CANCELLED", "", "", 0))
           /\ ForwardOrQueue(Outbound(f))
           /\ UNCHANGED <<editInProgress, editCalls, editLog>>
      [] OTHER ->
           /\ ForwardOrQueue(Outbound(f))
           /\ UNCHANGED <<editInProgress, editCalls, editLog, appEvents>>

\* The body of clientWs.on("message") for the parsed frame f.
onClientMessage(f) ==
    CASE f.type = "CONFIRM_EDIT" ->
           /\ handleConfirmEdit(f)
           /\ UNCHANGED <<queue, toGemini, pushed>>
      [] f.type = "CANCEL_EDIT_CONFIRM" ->
           /\ appEvents' = safeSendJson(clientWs, appEvents,
                  Frame("EDIT_CONFIRM_CANCELLED", "", "", 0))
           /\ UNCHANGED <<editInProgress, editCalls, editLog, queue, toGemini,
                          pushed>>
      [] OTHER ->
           /\ ForwardOrQueue(Outbound(f))
           /\ UNCHANGED <<editInProgress, editCalls, editLog, appEvents>>

\* The message handler whose cancel verb also abandons the edit in flight.
ClientMessage_CancelAbortsEdit(data) ==
    /\ geminiWs # "NONE"
    /\ clientWs \in {"OPEN", "CLOSING"}
    /\ recvCount < MaxClientFrames
    /\ LET f == [id |-> recvCount + 1, type |-> data.type, enc |-> data.enc,
                 instr |-> data.instr, img |-> data.img]
       IN  /\ recvCount' = recvCount + 1
           /\ confirmCount' = confirmCount + (IF f.type = "CONFIRM_EDIT" THEN 1 ELSE 0)
           /\ CASE f.type = "CONFIRM_EDIT" ->
                     /\ handleConfirmEdit(f)
                     /\ UNCHANGED <<queue, toGemini, pushed>>
                [] f.type = "CANCEL_EDIT_CONFIRM" ->
                     /\ appEvents' = safeSendJson(clientWs, appEvents,
                            Frame("EDIT_CONFIRM_CANCELLED", "", "", 0))
                     /\ editInProgress' = FALSE
                     /\ editCalls' = <<>>
                     /\ UNCHANGED <<editLog, queue, toGemini, pushed>>
                [] OTHER ->
                     /\ ForwardOrQueue(Outbound(f))
                     /\ UNCHANGED <<editInProgress, editCalls, editLog, appEvents>>
    /\ UNCHANGED <<clientWs, geminiWs, geminiConnected, heartbeatTimer,
                   liveTimers, pings,
                   lastPartialTranscriptByRole, editVersionCounter, toClient,
                   flushed, upCount, handshakeRelayed>>
    /\ UNCHANGED <<clientVars, pageVars>>
    /\ UNCHANGED clientGone

\* clientWs.on("message")
ClientMessage(data) ==
    /\ geminiWs # "NONE"
    /\ clientWs \in {"OPEN", "CLOSING"}
    /\ recvCount < MaxClientFrames
    /\ LET f == [id |-> recvCount + 1, type |-> data.type, enc |-> data.enc,
                 instr |-> data.instr, img |-> data.img]
       IN  /\ recvCount' = recvCount + 1
           /\ confirmCount' = confirmCount + (IF f.type = "CONFIRM_EDIT" THEN 1 ELSE 0)
           /\ onClientMessage(f)
    /\ UNCHANGED <<clientWs, geminiWs, geminiConnected, heartbeatTimer,
                   liveTimers, pings,
                   lastPartialTranscriptByRole, editVersionCounter, toClient,
                   flushed, upCount, handshakeRelayed>>
    /\ UNCHANGED <<clientVars, pageVars>>
    /\ UNCHANGED clientGone

RemoveAt(s, i) == SubSeq(s, 1, i - 1) \o SubSeq(s, i + 1, Len(s))

\* The try block labelling the result before it counts it.
EditResolved_LabelBeforeCount(i) ==
    /\ i \in DOMAIN editCalls
    /\ editVersionCounter' = editVersionCounter + 1
    /\ appEvents' = safeSendJson(clientWs, appEvents,
            Frame("EDIT_COMPLETED", editCalls[i].instruction, "BBB",
                  editVersionCounter))
    /\ editInProgress' = FALSE
    /\ editCalls' = RemoveAt(editCalls, i)
    /\ UNCHANGED <<clientWs, geminiWs, geminiConnected, heartbeatTimer,
                   liveTimers, pings,
                   lastPartialTranscriptByRole, queue, toClient, toGemini,
                   recvCount, confirmCount, pushed, flushed, upCount, editLog,
                   handshakeRelayed>>
    /\ UNCHANGED <<clientVars, pageVars>>
    /\ UNCHANGED clientGone

\* handleConfirmEdit after runImageEdit resolved: the try block and finally.
EditResolved(i) ==
    /\ i \in DOMAIN editCalls
    /\ editVersionCounter' = editVersionCounter + 1
    /\ appEvents' = safeSendJson(clientWs, appEvents,
            Frame("EDIT_COMPLETED", editCalls[i].instruction, "BBB",
                  editVersionCounter + 1))
    /\ editInProgress' = FALSE
    /\ editCalls' = RemoveAt(editCalls, i)
    /\ UNCHANGED <<clientWs, geminiWs, geminiConnected, heartbeatTimer,
                   liveTimers, pings,
                   lastPartialTranscriptByRole, queue, toClient, toGemini,
                   recvCount, confirmCount, pushed, flushed, upCount, editLog,
                   handshakeRelayed>>
    /\ UNCHANGED <<clientVars, pageVars>>
    /\ UNCHANGED clientGone

\* The catch block without the finally that clears editInProgress.
EditRejected_FlagLeftSet(i) ==
    /\ i \in DOMAIN editCalls
    /\ appEvents' = safeSendJson(clientWs, appEvents,
            Frame("EDIT_FAILED", editCalls[i].instruction, "Image edit failed", 0))
    /\ editCalls' = RemoveAt(editCalls, i)
    /\ UNCHANGED <<clientWs, geminiWs, geminiConnected, heartbeatTimer,
                   liveTimers, pings,
                   lastPartialTranscriptByRole, editInProgress,
                   editVersionCounter, queue, toClient, toGemini, recvCount,
                   confirmCount, pushed, flushed, upCount, editLog,
                   handshakeRelayed>>
    /\ UNCHANGED <<clientVars, pageVars>>
    /\ UNCHANGED clientGone

\* handleConfirmEdit after runImageEdit threw: the catch block and finally.
EditRejected(i) ==
    /\ i \in DOMAIN editCalls
    /\ appEvents' = safeSendJson(clientWs, appEvents,
            Frame("EDIT_FAILED", editCalls[i].instruction, "Image edit failed", 0))
    /\ editInProgress' = FALSE
    /\ editCalls' = RemoveAt(editCalls, i)
    /\ UNCHANGED <<clientWs, geminiWs, geminiConnected, heartbeatTimer,
                   liveTimers, pings,
                   lastPartialTranscriptByRole, editVersionCounter, queue,
                   toClient, toGemini, recvCount, confirmCount, pushed,
                   flushed, upCount, editLog, handshakeRelayed>>
    /\ UNCHANGED <<clientVars, pageVars>>
    /\ UNCHANGED clientGone

\* geminiWs.on("open")
GeminiOpen ==
    /\ geminiWs = "CONNECTING"
    /\ geminiWs' = "OPEN"
    /\ geminiConnected' = TRUE
    /\ startHeartbeat
    /\ toClient' = safeSendJson(clientWs, toClient,
            Frame("proxy", "upstream_connected", "", 0))
    /\ LET drained == FlushQueue(queue, toGemini, "OPEN")
       IN  /\ queue' = drained[1]
           /\ toGemini' = drained[2]
           /\ flushed' = Len(queue) - Len(drained[1])
    /\ pushed' = <<>>
    /\ UNCHANGED <<clientWs, lastPartialTranscriptByRole, editInProgress,
                   editVersionCounter, editCalls, appEvents, recvCount,
                   confirmCount, upCount, editLog, handshakeRelayed>>
    /\ UNCHANGED <<clientVars, pageVars>>
    /\ UNCHANGED clientGone

\* geminiWs.on("message") for a message of the given kind in which
\* extractTranscriptEvents finds the given events.
onGeminiMessage(kind, events) ==
    /\ geminiWs = "OPEN"
    /\ upCount' = upCount + 1
    /\ IF clientWs # "OPEN"
       THEN UNCHANGED <<toClient, lastPartialTranscriptByRole, handshakeRelayed>>
       ELSE LET forwarded == Append(toClient, Frame("upstream", kind, "", upCount + 1))
                relayed == RelayTranscripts(events, lastPartialTranscriptByRole,
                                            clientWs, forwarded)
            IN  /\ lastPartialTranscriptByRole' = relayed[1]
                /\ toClient' = IF kind = "setupComplete"
                               THEN safeSendJson(clientWs, relayed[2],
                                        Frame("proxy", "ready_for_audio", "", 0))
                               ELSE relayed[2]
                /\ handshakeRelayed' = (handshakeRelayed \/ kind = "setupComplete")
    /\ UNCHANGED <<clientWs, geminiWs, geminiConnected, heartbeatTimer,
                   liveTimers, pings,
                   editInProgress, editVersionCounter, queue, editCalls,
                   appEvents, toGemini, recvCount, confirmCount, pushed,
                   flushed, editLog>>
    /\ UNCHANGED <<clientVars, pageVars>>
    /\ UNCHANGED clientGone

\* geminiWs.on("message")
GeminiMessage(m) ==
    /\ upCount < MaxUpstreamMsgs
    /\ onGeminiMessage(m.kind, m.events)

\* geminiWs.on("message") for a serverContent message, after the handshake.
GeminiContent(raw) ==
    /\ upCount <= MaxTranscriptMsgs
    /\ onGeminiMessage("content", extractTranscriptEvents(raw))

\* closeBoth(code, reason): <<geminiWs', clientWs', toClient'>>
closeBoth(code, log) ==
    <<IF geminiWs = "OPEN" THEN "CLOSING" ELSE geminiWs,
      IF clientWs = "OPEN" THEN "CLOSING" ELSE clientWs,
      IF clientWs = "OPEN" THEN Append(log, Frame("close", "", "", code)) ELSE log>>

\* geminiWs.on("error"); the socket is closing once its error event fired.
GeminiError ==
    /\ geminiWs \in {"CONNECTING", "OPEN", "CLOSING"}
    /\ LET closed == closeBoth(1011,
                        safeSendJson(clientWs, toClient,
                            Frame("error", "upstream_error", "", 0)))
       IN  /\ geminiWs' = "CLOSING"
           /\ clientWs' = closed[2]
           /\ toClient' = closed[3]
    /\ stopHeartbeat
    /\ UNCHANGED <<geminiConnected, lastPartialTranscriptByRole,
                   editInProgress, editVersionCounter, queue, editCalls,
                   appEvents, toGemini, recvCount, confirmCount, pushed,
                   flushed, upCount, editLog, handshakeRelayed>>
    /\ UNCHANGED <<clientVars, pageVars>>
    /\ UNCHANGED clientGone

\* geminiWs.on("close")
GeminiClose(code) ==
    /\ geminiWs \in {"OPEN", "CLOSING"}
    /\ geminiWs' = "CLOSED"
    /\ geminiConnected' = FALSE
    /\ stopHeartbeat
    /\ LET reported == safeSendJson(clientWs, toClient,
                            Frame("error", "upstream_closed", "", code))
       IN  IF clientWs = "OPEN"
           THEN /\ clientWs' = "CLOSING"
                /\ toClient' = Append(reported, Frame("close", "", "", code))
           ELSE /\ toClient' = reported
                /\ UNCHANGED clientWs
    /\ UNCHANGED <<lastPartialTranscriptByRole, editInProgress,
                   editVersionCounter, queue, editCalls, appEvents, toGemini,
                   recvCount, confirmCount, pushed, flushed, upCount, editLog,
                   handshakeRelayed>>
    /\ UNCHANGED <<clientVars, pageVars>>
    /\ UNCHANGED clientGone

\* The close handler that leaves the upstream socket as it is.
ClientClose_KeepsUpstream ==
    /\ geminiWs # "NONE"
    /\ clientWs \in {"OPEN", "CLOSING"}
    /\ clientWs' = "CLOSED"
    /\ stopHeartbeat
    /\ geminiWs' = geminiWs
    /\ UNCHANGED <<geminiConnected, lastPartialTranscriptByRole,
                   editInProgress, editVersionCounter, queue, editCalls,
                   toClient, appEvents, toGemini, recvCount, confirmCount,
                   pushed, flushed, upCount, editLog, handshakeRelayed>>
    /\ UNCHANGED <<clientVars, pageVars>>
    /\ clientGone' = TRUE

\* clientWs.on("close")
ClientClose ==
    /\ geminiWs # "NONE"
    /\ clientWs \in {"OPEN", "CLOSING"}
    /\ clientWs' = "CLOSED"
    /\ stopHeartbeat
    /\ geminiWs' = CloseSocket(geminiWs)
    /\ UNCHANGED <<geminiConnected, lastPartialTranscriptByRole,
                   editInProgress, editVersionCounter, queue, editCalls,
                   toClient, appEvents, toGemini, recvCount, confirmCount,
                   pushed, flushed, upCount, editLog, handshakeRelayed>>
    /\ UNCHANGED <<clientVars, pageVars>>
    /\ clientGone' = TRUE

\* The error handler without its stopHeartbeat().
ClientError_KeepsHeartbeat ==
    /\ geminiWs # "NONE"
    /\ clientWs \in {"OPEN", "CLOSING"}
    /\ clientWs' = "CLOSING"
    /\ UNCHANGED <<heartbeatTimer, liveTimers, pings>>
    /\ geminiWs' = CloseSocket(geminiWs)
    /\ UNCHANGED <<geminiConnected, lastPartialTranscriptByRole,
                   editInProgress, editVersionCounter, queue, editCalls,
                   toClient, appEvents, toGemini, recvCount, confirmCount,
                   pushed, flushed, upCount, editLog, handshakeRelayed>>
    /\ UNCHANGED <<clientVars, pageVars>>
    /\ clientGone' = TRUE

\* clientWs.on("error"); the socket is closing once its error event fired.
ClientError ==
    /\ geminiWs # "NONE"
    /\ clientWs \in {"OPEN", "CLOSING"}
    /\ clientWs' = "CLOSING"
    /\ stopHeartbeat
    /\ geminiWs' = CloseSocket(geminiWs)
    /\ UNCHANGED <<geminiConnected, lastPartialTranscriptByRole,
                   editInProgress, editVersionCounter, queue, editCalls,
                   toClient, appEvents, toGemini, recvCount, confirmCount,
                   pushed, flushed, upCount, editLog, handshakeRelayed>>
    /\ UNCHANGED <<clientVars, pageVars>>
    /\ clientGone' = TRUE

\* Runs of the interval callback followed in one connection.
MaxTicks == 3

\* The callback of the interval set by startHeartbeat.
HeartbeatTick ==
    /\ liveTimers > 0
    /\ Len(pings) < MaxTicks
    /\ pings' = Append(pings,
            [client |-> clientWs = "OPEN",
             upstream |-> geminiWs # "NONE" /\ geminiWs = "OPEN",
             clientWs |-> clientWs, geminiWs |-> geminiWs,
             clientGone |-> clientGone])
    /\ UNCHANGED <<clientWs, geminiWs, geminiConnected, heartbeatTimer,
                   liveTimers, lastPartialTranscriptByRole, editInProgress,
                   editVersionCounter, queue, editCalls, toClient, appEvents,
                   toGemini, recvCount, confirmCount, pushed, flushed, upCount,
                   editLog, handshakeRelayed>>
    /\ UNCHANGED <<clientVars, pageVars>>
    /\ UNCHANGED clientGone

HeartbeatNext ==
    \/ GeminiOpen
    \/ HeartbeatTick
    \/ \E m \in UpstreamMsgs : GeminiMessage(m)
    \/ GeminiError
    \/ \E code \in UpstreamCloseCodes : GeminiClose(code)
    \/ ClientClose
    \/ ClientError

RelayNext ==
    \/ \E data \in ClientFrames : ClientMessage(data)
    \/ \E i \in 1..MaxClientFrames : EditResolved(i)
    \/ \E i \in 1..MaxClientFrames : EditRejected(i)
    \/ GeminiOpen
    \/ \E m \in UpstreamMsgs : GeminiMessage(m)
    \/ GeminiError
    \/ \E code \in UpstreamCloseCodes : GeminiClose(code)
    \/ ClientClose
    \/ ClientError

(***************************************************************************)
(* SessionClient: constants and inputs.                                    *)
(***************************************************************************)
\* Speech gate parameters, RMS values in units of 1e-6.
InitialNoiseFloor == 3500
minSpeechRms == 7500
gateHoldMs == 360
NoiseFloorMin == 2500
NoiseFloorMax == 30000
\* One ScriptProcessor buffer: 4096 samples at 16 kHz.
FrameMs == 256
\* Audio callbacks of one session.
MaxAudioFrames == 1

\* RMS of a captured buffer: silence, and speech well above any threshold.
RmsInputs == {0, 200000}

\* Callbacks of one capture session, and what its buffers hold: silence, a
\* voice that passes the threshold only while nothing is played, speech well
\* above any threshold.
MaxGateFrames == 4
GateRmsInputs == {0, 10000, 200000}
\* Time between two callbacks: one buffer period, or what is left of the
\* hold window after one buffer period.
ElapsedMs == {FrameMs, gateHoldMs - FrameMs}

\* What the socket delivers: handshake-complete, an application event
\* (type EDIT_*), an error frame, and a frame handleMessage has no branch for
\* (the relay's proxy notices); "audio" is serverContent with one audio part.
ServerMsgs == {"setupComplete", "EDIT_STATUS", "error", "audio", "proxy"}

\* serverContent messages of one playback session, and how far its clock is
\* followed.
MaxContentMsgs == 2
MaxTime == 2

\* Parts of a model turn: spoken text, a thought (no callback), inline audio
\* of a given duration.
TextPart == [kind |-> "text", duration |-> 0]
ThoughtPart == [kind |-> "thought", duration |-> 0]
AudioPart(duration) == [kind |-> "audio", duration |-> duration]

\* A serverContent message: its model-turn parts, the duration of its direct
\* audioContent (0: none), and whether it carries an output transcription,
\* an input transcription, the interrupted flag, the turn-complete flag.
Content(parts, audioContent, outText, inText, interrupted, turnComplete) ==
    [parts |-> parts, audioContent |-> audioContent,
     outputTranscription |-> outText, inputTranscription |-> inText,
     interrupted |-> interrupted, turnComplete |-> turnComplete]

\* serverContent with one inline audio part.
AudioFrame == Content(<<AudioPart(1)>>, 0, FALSE, FALSE, FALSE, FALSE)

\* serverContent messages: audio in one or two parts or as direct content, an
\* interruption alone and with audio in the same message, and the ends of a
\* turn with text, with transcriptions, with a thought.
ContentMsgs ==
    { AudioFrame,
      Content(<<AudioPart(2), AudioPart(1)>>, 0, FALSE, FALSE, FALSE, FALSE),
      Content(<<>>, 2, TRUE, FALSE, FALSE, FALSE),
      Content(<<>>, 0, FALSE, FALSE, TRUE, FALSE),
      Content(<<AudioPart(1)>>, 0, FALSE, FALSE, TRUE, TRUE),
      Content(<<TextPart>>, 0, FALSE, TRUE, FALSE, TRUE),
      Content(<<ThoughtPart>>, 0, FALSE, FALSE, FALSE, TRUE) }

SendOps == {"sendText", "sendImage", "sendToolResult", "confirmEdit",
            "cancelEditConfirm"}

\* The frame each outbound method builds.
FrameOf(op) ==
    CASE op = "sendText" -> "clientContent:text"
      [] op = "sendImage" -> "clientContent:image"
      [] op = "sendToolResult" -> "toolResponse"
      [] op = "confirmEdit" -> "CONFIRM_EDIT"
      [] op = "cancelEditConfirm" -> "CANCEL_EDIT_CONFIRM"

(***************************************************************************)
(* SessionClient: helpers.                                                 *)
(***************************************************************************)
Visit(trace, st) == IF trace[Len(trace)] = st THEN trace ELSE Append(trace, st)

\* send(data, force): the log of frames handed to ws.send afterwards.
send(frame, force) ==
    IF ws /\ (state = "connected" \/ force) THEN Append(sent, frame) ELSE sent

\* WebSocket.close() as the browser carries it out.
BrowserClose(readyState) ==
    CASE readyState = "CONNECTING" -> "ABORTING"
      [] readyState = "OPEN" -> "CLOSING"
      [] OTHER -> readyState

resetInputNoiseGate ==
    /\ ambientNoiseFloorRms' = InitialNoiseFloor
    /\ speechGateOpenUntilMs' = 0

stopAudioInput ==
    /\ processorNode' = FALSE
    /\ liveProcessors' = liveProcessors - (IF processorNode THEN 1 ELSE 0)
    /\ inputAudioContext' = FALSE
    /\ mediaStream' = FALSE
    /\ resetInputNoiseGate

\* The playback fields and the output graph as one value, so that the calls
\* one handler makes in sequence can be composed.
Playback ==
    [isPlaying |-> isPlaying, audioQueue |-> audioQueue,
     scheduledSources |-> scheduledSources, nextPlayTime |-> nextPlayTime,
     liveSources |-> liveSources, bufferSources |-> bufferSources,
     stoppedSources |-> stoppedSources]

\* The playback fields and the output graph become p; the clock is not moved
\* by code.
SetPlayback(p) ==
    /\ isPlaying' = p.isPlaying
    /\ audioQueue' = p.audioQueue
    /\ scheduledSources' = p.scheduledSources
    /\ nextPlayTime' = p.nextPlayTime
    /\ liveSources' = p.liveSources
    /\ bufferSources' = p.bufferSources
    /\ stoppedSources' = p.stoppedSources

\* stopPlayback() that leaves the schedule where the stopped audio ended.
stopPlaybackOf_KeepsSchedule(p) ==
    [p EXCEPT !.audioQueue = <<>>,
              !.stoppedSources = p.stoppedSources \cup p.scheduledSources,
              !.scheduledSources = {},
              !.isPlaying = FALSE]

\* stopPlayback() applied to p: a stopped source still fires its ended event
\* later.
stopPlaybackOf(p) ==
    [p EXCEPT !.audioQueue = <<>>,
              !.stoppedSources = p.stoppedSources \cup p.scheduledSources,
              !.scheduledSources = {},
              !.nextPlayTime = 0,
              !.isPlaying = FALSE]

stopPlayback == SetPlayback(stopPlaybackOf(Playback)) /\ UNCHANGED currentTime

\* One pass of the loop of processAudioQueue() that starts every buffer at
\* the clock's current time.
schedule_StartsNow(p, duration) ==
    LET id == Len(p.bufferSources) + 1
        when == currentTime
    IN  [p EXCEPT !.nextPlayTime = when + duration,
                  !.scheduledSources = p.scheduledSources \cup {id},
                  !.liveSources = p.liveSources \cup {id},
                  !.bufferSources =
                      Append(p.bufferSources,
                             [start |-> when, end |-> when + duration])]

\* One pass of the loop of processAudioQueue(): the buffer (given by its
\* duration) gets a source that starts at the later of nextPlayTime and the
\* clock.
schedule(p, duration) ==
    LET id == Len(p.bufferSources) + 1
        when == IF p.nextPlayTime < currentTime THEN currentTime
                ELSE p.nextPlayTime
    IN  [p EXCEPT !.nextPlayTime = when + duration,
                  !.scheduledSources = p.scheduledSources \cup {id},
                  !.liveSources = p.liveSources \cup {id},
                  !.bufferSources =
                      Append(p.bufferSources,
                             [start |-> when, end |-> when + duration])]

\* processAudioQueue() on a running output context: the queue is drained in
\* order.
RECURSIVE processAudioQueue(_)
processAudioQueue(p) ==
    IF p.audioQueue = <<>> THEN p
    ELSE processAudioQueue(
             schedule([p EXCEPT !.audioQueue = Tail(p.audioQueue)],
                      Head(p.audioQueue)))

\* queueAudio(audioData) applied to p, for a buffer of the given duration.
queueAudioOf(p, duration) ==
    LET q == [p EXCEPT !.audioQueue = Append(p.audioQueue, duration),
                       !.isPlaying = TRUE]
    IN  IF audioContext THEN processAudioQueue(q) ELSE q

queueAudio(duration) ==
    SetPlayback(queueAudioOf(Playback, duration)) /\ UNCHANGED currentTime

\* The loop over modelTurn.parts: the callbacks it invokes and the playback
\* state it leaves, from a log and a playback state.
RECURSIVE modelTurnParts(_, _, _)
modelTurnParts(parts, log, p) ==
    IF parts = <<>> THEN [log |-> log, playback |-> p]
    ELSE LET part == Head(parts)
         IN  CASE part.kind = "text" ->
                    modelTurnParts(Tail(parts), Append(log, "onTextReceived"), p)
               [] part.kind = "audio" ->
                    modelTurnParts(Tail(parts), Append(log, "onAudioReceived"),
                                   queueAudioOf(p, part.duration))
               [] OTHER -> modelTurnParts(Tail(parts), log, p)

\* serverContent that signals the end of the turn before the transcriptions
\* of the message.
serverContent_TurnCompleteFirst(c) ==
    LET turn == modelTurnParts(c.parts, callbackLog, Playback)
        direct == IF c.audioContent > 0
                  THEN [log |-> Append(turn.log, "onAudioReceived"),
                        playback |-> queueAudioOf(turn.playback, c.audioContent)]
                  ELSE turn
        log0 == IF c.turnComplete
                THEN Append(direct.log, "onTurnComplete") ELSE direct.log
        log1 == IF c.outputTranscription
                THEN Append(log0, "onTextReceived") ELSE log0
        log2 == IF c.inputTranscription
                THEN Append(log1, "onUserTranscription") ELSE log1
        log4 == IF c.interrupted THEN Append(log2, "onInterrupted") ELSE log2
    IN  /\ SetPlayback(IF c.interrupted THEN stopPlaybackOf(direct.playback)
                       ELSE direct.playback)
        /\ callbackLog' = log4
        /\ UNCHANGED currentTime

\* handleMessage for a message with serverContent: the callbacks invoked, in
\* order, and the playback state afterwards.
serverContent(c) ==
    LET turn == modelTurnParts(c.parts, callbackLog, Playback)
        direct == IF c.audioContent > 0
                  THEN [log |-> Append(turn.log, "onAudioReceived"),
                        playback |-> queueAudioOf(turn.playback, c.audioContent)]
                  ELSE turn
        log1 == IF c.outputTranscription
                THEN Append(direct.log, "onTextReceived") ELSE direct.log
        log2 == IF c.inputTranscription
                THEN Append(log1, "onUserTranscription") ELSE log1
        log3 == IF c.interrupted THEN Append(log2, "onInterrupted") ELSE log2
        log4 == IF c.turnComplete THEN Append(log3, "onTurnComplete") ELSE log3
    IN  /\ SetPlayback(IF c.interrupted THEN stopPlaybackOf(direct.playback)
                       ELSE direct.playback)
        /\ callbackLog' = log4
        /\ UNCHANGED currentTime

\* The value of the promise after this.connectResolve?.(connected).
Resolved(resolver, connected) ==
    IF resolver /\ promise = "pending" THEN connected ELSE promise

ClientInit ==
    /\ state = "disconnected"
    /\ ws = FALSE
    /\ sock = "NONE"
    /\ audioContext = FALSE
    /\ setupCompleted = FALSE
    /\ intentionalClose = FALSE
    /\ connectResolve = FALSE
    /\ setupTimeout = FALSE
    /\ timerPending = FALSE
    /\ promise = "none"
    /\ mediaStream = FALSE
    /\ inputAudioContext = FALSE
    /\ processorNode = FALSE
    /\ ambientNoiseFloorRms = InitialNoiseFloor
    /\ speechGateOpenUntilMs = 0
    /\ isPlaying = FALSE
    /\ audioQueue = <<>>
    /\ scheduledSources = {}
    /\ nextPlayTime = 0
    /\ liveSources = {}
    /\ currentTime = 0
    /\ bufferSources = <<>>
    /\ stoppedSources = {}
    /\ micCalls = 0
    /\ liveProcessors = 0
    /\ startCount = 0
    /\ nowMs = 0
    /\ float32Data = <<>>
    /\ int16Data = <<>>
    /\ float32Array = <<>>
    /\ frameLog = <<>>
    /\ sent = <<>>
    /\ callbackLog = <<>>
    /\ stateTrace = <<"disconnected">>
    /\ msgCount = 0
    /\ setupSeen = FALSE
    /\ callTick = 0

audioVars == <<mediaStream, inputAudioContext, processorNode,
               ambientNoiseFloorRms, speechGateOpenUntilMs, liveProcessors>>
playbackVars == <<isPlaying, audioQueue, scheduledSources, nextPlayTime,
                  liveSources, currentTime, bufferSources, stoppedSources>>

(***************************************************************************)
(* SessionClient: connect() and the handlers it installs.                  *)
(***************************************************************************)
\* connect(callbacks); "ok", or the constructor that threw inside the try.
Connect(outcome) ==
    /\ promise = "none"
    /\ UNCHANGED callTick
    /\ IF state \in {"connected", "connecting"}
       THEN /\ promise' = "false"
            /\ UNCHANGED <<state, ws, sock, audioContext, setupCompleted,
                           intentionalClose, connectResolve, setupTimeout,
                           timerPending, callbackLog, stateTrace>>
       ELSE /\ setupCompleted' = FALSE
            /\ intentionalClose' = FALSE
            /\ IF outcome = "ok"
               THEN /\ state' = "connecting"
                    /\ stateTrace' = Visit(stateTrace, "connecting")
                    /\ audioContext' = TRUE
                    /\ ws' = TRUE
                    /\ sock' = "CONNECTING"
                    /\ connectResolve' = TRUE
                    /\ setupTimeout' = TRUE
                    /\ timerPending' = TRUE
                    /\ promise' = "pending"
                    /\ UNCHANGED callbackLog
               ELSE /\ state' = "error"
                    /\ stateTrace' = Visit(Visit(stateTrace, "connecting"), "error")
                    /\ audioContext' = (audioContext \/ outcome # "AudioContext")
                    /\ callbackLog' = Append(callbackLog, "onError:connect")
                    /\ promise' = "false"
                    /\ UNCHANGED <<ws, sock, connectResolve, setupTimeout,
                                   timerPending>>
    /\ UNCHANGED <<audioVars, playbackVars, micCalls, startCount, nowMs, codecVars, frameLog, sent,
                   msgCount, setupSeen>>
    /\ UNCHANGED <<relayVars, pageVars>>

\* onopen that sends no setup frame.
WsOpen_NoSetupFrame ==
    /\ sock = "CONNECTING"
    /\ sock' = "OPEN"
    /\ sent' = sent
    /\ UNCHANGED <<state, ws, audioContext, setupCompleted, intentionalClose,
                   connectResolve, setupTimeout, timerPending, promise,
                   audioVars, playbackVars, micCalls, startCount, nowMs, codecVars, frameLog,
                   callbackLog, stateTrace, msgCount, setupSeen, callTick>>
    /\ UNCHANGED <<relayVars, pageVars>>

\* ws.onopen -> sendSetupMessage()
WsOpen ==
    /\ sock = "CONNECTING"
    /\ sock' = "OPEN"
    /\ sent' = send("setup", TRUE)
    /\ UNCHANGED <<state, ws, audioContext, setupCompleted, intentionalClose,
                   connectResolve, setupTimeout, timerPending, promise,
                   audioVars, playbackVars, micCalls, startCount, nowMs, codecVars, frameLog,
                   callbackLog, stateTrace, msgCount, setupSeen, callTick>>
    /\ UNCHANGED <<relayVars, pageVars>>

\* handleMessage that takes an error frame for the end of the session.
handleMessage_ErrorFrameFails(m) ==
    /\ sock = "OPEN"
    /\ msgCount' = msgCount + 1
    /\ setupSeen' = (setupSeen \/ m = "setupComplete")
    /\ CASE m = "setupComplete" ->
              /\ setupCompleted' = TRUE
              /\ state' = "connected"
              /\ stateTrace' = Visit(stateTrace, "connected")
              /\ callbackLog' = Append(callbackLog, "onConnected")
              /\ promise' = Resolved(connectResolve, "true")
              /\ connectResolve' = FALSE
              /\ setupTimeout' = IF connectResolve THEN FALSE ELSE setupTimeout
              /\ timerPending' = IF connectResolve THEN FALSE ELSE timerPending
              /\ UNCHANGED playbackVars
         [] m = "EDIT_STATUS" ->
              /\ callbackLog' = Append(callbackLog, "onAppEvent")
              /\ UNCHANGED <<setupCompleted, state, stateTrace, promise,
                             connectResolve, setupTimeout, timerPending,
                             playbackVars>>
         [] m = "error" ->
              /\ callbackLog' = Append(callbackLog, "onError:frame")
              /\ state' = "error"
              /\ stateTrace' = Visit(stateTrace, "error")
              /\ UNCHANGED <<setupCompleted, promise,
                             connectResolve, setupTimeout, timerPending,
                             playbackVars>>
         [] m = "audio" ->
              /\ serverContent(AudioFrame)
              /\ UNCHANGED <<setupCompleted, state, stateTrace,
                             promise, connectResolve, setupTimeout, timerPending>>
         [] OTHER ->
              UNCHANGED <<callbackLog, setupCompleted, state, stateTrace, promise,
                          connectResolve, setupTimeout, timerPending, playbackVars>>
    /\ UNCHANGED <<ws, sock, audioContext, intentionalClose, audioVars,
                   micCalls, startCount, nowMs, codecVars, frameLog, sent, callTick>>
    /\ UNCHANGED <<relayVars, pageVars>>

\* handleMessage(data) for a frame on the open socket.
handleMessage(m) ==
    /\ sock = "OPEN"
    /\ msgCount' = msgCount + 1
    /\ setupSeen' = (setupSeen \/ m = "setupComplete")
    /\ CASE m = "setupComplete" ->
              /\ setupCompleted' = TRUE
              /\ state' = "connected"
              /\ stateTrace' = Visit(stateTrace, "connected")
              /\ callbackLog' = Append(callbackLog, "onConnected")
              /\ promise' = Resolved(connectResolve, "true")
              /\ connectResolve' = FALSE
              /\ setupTimeout' = IF connectResolve THEN FALSE ELSE setupTimeout
              /\ timerPending' = IF connectResolve THEN FALSE ELSE timerPending
              /\ UNCHANGED playbackVars
         [] m = "EDIT_STATUS" ->
              /\ callbackLog' = Append(callbackLog, "onAppEvent")
              /\ UNCHANGED <<setupCompleted, state, stateTrace, promise,
                             connectResolve, setupTimeout, timerPending,
                             playbackVars>>
         [] m = "error" ->
              /\ callbackLog' = Append(callbackLog, "onError:frame")
              /\ UNCHANGED <<setupCompleted, state, stateTrace, promise,
                             connectResolve, setupTimeout, timerPending,
                             playbackVars>>
         [] m = "audio" ->
              /\ serverContent(AudioFrame)
              /\ UNCHANGED <<setupCompleted, state, stateTrace,
                             promise, connectResolve, setupTimeout, timerPending>>
         [] OTHER ->
              UNCHANGED <<callbackLog, setupCompleted, state, stateTrace, promise,
                          connectResolve, setupTimeout, timerPending, playbackVars>>
    /\ UNCHANGED <<ws, sock, audioContext, intentionalClose, audioVars,
                   micCalls, startCount, nowMs, codecVars, frameLog, sent, callTick>>
    /\ UNCHANGED <<relayVars, pageVars>>

\* handleMessage that takes the relay's proxy notices for handshake-complete.
WsMessage_AnyFrameCompletes(m) ==
    /\ sock = "OPEN"
    /\ msgCount < MaxServerMsgs
    /\ msgCount' = msgCount + 1
    /\ setupSeen' = (setupSeen \/ m = "setupComplete")
    /\ CASE m \in {"setupComplete", "proxy"} ->
              /\ setupCompleted' = TRUE
              /\ state' = "connected"
              /\ stateTrace' = Visit(stateTrace, "connected")
              /\ callbackLog' = Append(callbackLog, "onConnected")
              /\ promise' = Resolved(connectResolve, "true")
              /\ connectResolve' = FALSE
              /\ setupTimeout' = IF connectResolve THEN FALSE ELSE setupTimeout
              /\ timerPending' = IF connectResolve THEN FALSE ELSE timerPending
              /\ UNCHANGED playbackVars
         [] m = "EDIT_STATUS" ->
              /\ callbackLog' = Append(callbackLog, "onAppEvent")
              /\ UNCHANGED <<setupCompleted, state, stateTrace, promise,
                             connectResolve, setupTimeout, timerPending,
                             playbackVars>>
         [] m = "error" ->
              /\ callbackLog' = Append(callbackLog, "onError:frame")
              /\ UNCHANGED <<setupCompleted, state, stateTrace, promise,
                             connectResolve, setupTimeout, timerPending,
                             playbackVars>>
         [] m = "audio" ->
              /\ serverContent(AudioFrame)
              /\ UNCHANGED <<setupCompleted, state, stateTrace,
                             promise, connectResolve, setupTimeout, timerPending>>
         [] OTHER ->
              UNCHANGED <<callbackLog, setupCompleted, state, stateTrace, promise,
                          connectResolve, setupTimeout, timerPending, playbackVars>>
    /\ UNCHANGED <<ws, sock, audioContext, intentionalClose, audioVars,
                   micCalls, startCount, nowMs, codecVars, frameLog, sent, callTick>>
    /\ UNCHANGED <<relayVars, pageVars>>

\* ws.onmessage -> handleMessage(data)
WsMessage(m) ==
    /\ msgCount < MaxServerMsgs
    /\ handleMessage(m)

\* ws.onmessage -> handleMessage(data) for an error frame, among the
\* serverContent messages of a session.
WsErrorFrame ==
    /\ msgCount <= MaxContentMsgs
    /\ handleMessage("error")

\* ws.onerror; the browser closes a socket whose error event fired.
WsError ==
    /\ sock \in {"CONNECTING", "OPEN", "ABORTING"}
    /\ sock' = "CLOSING"
    /\ state' = "error"
    /\ stateTrace' = Visit(stateTrace, "error")
    /\ callbackLog' = Append(callbackLog, "onError:socket")
    /\ promise' = Resolved(connectResolve, "false")
    /\ connectResolve' = FALSE
    /\ setupTimeout' = IF connectResolve THEN FALSE ELSE setupTimeout
    /\ timerPending' = IF connectResolve THEN FALSE ELSE timerPending
    /\ UNCHANGED <<ws, audioContext, setupCompleted, intentionalClose, audioVars,
                   playbackVars, micCalls, startCount, nowMs, codecVars, frameLog, sent, msgCount,
                   setupSeen, callTick>>
    /\ UNCHANGED <<relayVars, pageVars>>

\* ws.onclose, with cleanup() run before the last connectResolve?.(false).
WsClose ==
    /\ sock \in {"OPEN", "CLOSING", "ABORTING"}
    /\ sock' = "CLOSED"
    /\ intentionalClose' = FALSE
    /\ state' = "disconnected"
    /\ stateTrace' = Visit(stateTrace, "disconnected")
    \* cleanup()
    /\ setupTimeout' = FALSE
    /\ timerPending' = FALSE
    /\ connectResolve' = FALSE
    /\ setupCompleted' = FALSE
    /\ stopAudioInput
    /\ stopPlayback
    /\ audioContext' = FALSE
    \* after cleanup()
    /\ callbackLog' =
          (IF ~intentionalClose /\ ~setupCompleted
           THEN Append(callbackLog, "onError:closedBeforeSetup")
           ELSE callbackLog) \o <<"onDisconnected">>
    /\ promise' = Resolved(connectResolve', "false")
    /\ UNCHANGED <<ws, micCalls, startCount, nowMs, codecVars, frameLog, sent, msgCount, setupSeen,
                   callTick>>
    /\ UNCHANGED <<relayVars, pageVars>>

\* disconnect() that does not mark the close as intentional.
disconnect_KeepsCloseFlag ==
    /\ intentionalClose' = intentionalClose
    /\ setupTimeout' = FALSE
    /\ timerPending' = FALSE
    /\ connectResolve' = FALSE
    /\ setupCompleted' = FALSE
    /\ stopAudioInput
    /\ stopPlayback
    /\ sock' = IF ws THEN BrowserClose(sock) ELSE sock
    /\ ws' = FALSE
    /\ state' = "disconnected"

\* disconnect()
disconnect ==
    /\ intentionalClose' = TRUE
    /\ setupTimeout' = FALSE
    /\ timerPending' = FALSE
    /\ connectResolve' = FALSE
    /\ setupCompleted' = FALSE
    /\ stopAudioInput
    /\ stopPlayback
    /\ sock' = IF ws THEN BrowserClose(sock) ELSE sock
    /\ ws' = FALSE
    /\ state' = "disconnected"

\* The setup timer's callback.
SetupTimeoutFires ==
    /\ timerPending
    /\ IF ~setupCompleted /\ state = "connecting"
       THEN /\ callbackLog' = Append(callbackLog, "onError:setupTimeout")
            /\ promise' = Resolved(connectResolve, "false")
            /\ disconnect
            /\ stateTrace' = Visit(Visit(stateTrace, "error"), "disconnected")
       ELSE /\ timerPending' = FALSE
            /\ UNCHANGED <<callbackLog, promise, intentionalClose, setupTimeout,
                           connectResolve, setupCompleted, audioVars, playbackVars,
                           sock, ws, state, stateTrace>>
    /\ UNCHANGED <<audioContext, micCalls, startCount, nowMs, codecVars, frameLog, sent, msgCount,
                   setupSeen, callTick>>
    /\ UNCHANGED <<relayVars, pageVars>>

\* disconnect() called by the page.
Disconnect ==
    /\ UNCHANGED callTick
    /\ disconnect
    /\ stateTrace' = Visit(stateTrace, "disconnected")
    /\ UNCHANGED <<audioContext, promise, micCalls, startCount, nowMs, codecVars, frameLog, sent,
                   callbackLog, msgCount, setupSeen>>
    /\ UNCHANGED <<relayVars, pageVars>>

(***************************************************************************)
(* SessionClient: outbound turns and audio capture.                        *)
(***************************************************************************)
\* The outbound methods without the state guards (send forced).
ApiSend_Forced(op) ==
    /\ Len(sent) <= MaxSent
    /\ callTick' = 1 - callTick
    /\ sent' = send(FrameOf(op), TRUE)
    /\ UNCHANGED <<state, ws, sock, audioContext, setupCompleted, intentionalClose,
                   connectResolve, setupTimeout, timerPending, promise, audioVars,
                   playbackVars, micCalls, startCount, nowMs, codecVars, frameLog, callbackLog,
                   stateTrace, msgCount, setupSeen>>
    /\ UNCHANGED <<relayVars, pageVars>>

\* sendText, sendImage, sendToolResult, confirmEdit, cancelEditConfirm
ApiSend(op) ==
    /\ Len(sent) <= MaxSent
    /\ callTick' = 1 - callTick
    /\ sent' = IF state # "connected" THEN sent ELSE send(FrameOf(op), FALSE)
    /\ UNCHANGED <<state, ws, sock, audioContext, setupCompleted, intentionalClose,
                   connectResolve, setupTimeout, timerPending, promise, audioVars,
                   playbackVars, micCalls, startCount, nowMs, codecVars, frameLog, callbackLog,
                   stateTrace, msgCount, setupSeen>>
    /\ UNCHANGED <<relayVars, pageVars>>

Max(a, b) == IF a >= b THEN a ELSE b
Min(a, b) == IF a <= b THEN a ELSE b

\* The RMS of a buffer with a sample that is not a finite number.
NonFiniteRms == -1

\* The entry of frameLog for a callback whose buffer was not sent.
Dropped(now) ==
    [now |-> now, connected |-> state = "connected", speech |-> FALSE,
     open |-> FALSE, frame |-> "none", level |-> 0, reported |-> FALSE]

\* sendAudioChunk whose gate is still open when the hold window has just
\* run out.
sendAudioChunk_HoldInclusive(rms, now) ==
    IF state # "connected" \/ rms = NonFiniteRms
    THEN /\ frameLog' = Append(frameLog, Dropped(now))
         /\ UNCHANGED <<ambientNoiseFloorRms, speechGateOpenUntilMs, sent>>
    ELSE LET dynamicThreshold ==
                 Max(minSpeechRms, (ambientNoiseFloorRms * 22) \div 10)
             effectiveThreshold ==
                 IF isPlaying THEN dynamicThreshold * 3 ELSE dynamicThreshold
             isSpeech == rms >= effectiveThreshold
             adaptRate == IF rms > ambientNoiseFloorRms THEN 12 ELSE 3
             adapted == ambientNoiseFloorRms
                          + ((rms - ambientNoiseFloorRms) * adaptRate) \div 100
             openUntil == IF isSpeech THEN now + gateHoldMs
                          ELSE speechGateOpenUntilMs
             gateOpen == isSpeech \/ now <= openUntil
             normalizedLevel ==
                 IF gateOpen
                 THEN Min(1000000,
                          Max(0, (rms - (effectiveThreshold * 45) \div 100) * 16))
                 ELSE 0
             frame == IF gateOpen THEN "realtimeInput:audio"
                      ELSE "realtimeInput:silence"
         IN  /\ speechGateOpenUntilMs' = openUntil
             /\ ambientNoiseFloorRms' =
                   IF isSpeech THEN ambientNoiseFloorRms
                   ELSE Min(Max(adapted, NoiseFloorMin), NoiseFloorMax)
             /\ sent' = send(frame, FALSE)
             /\ frameLog' =
                   Append(frameLog,
                          [now |-> now, connected |-> TRUE, speech |-> isSpeech,
                           open |-> gateOpen,
                           frame |-> IF ws THEN frame ELSE "none",
                           level |-> normalizedLevel, reported |-> TRUE])

\* sendAudioChunk(float32Data) for a buffer of the given RMS, at time now.
sendAudioChunk(rms, now) ==
    IF state # "connected" \/ rms = NonFiniteRms
    THEN /\ frameLog' = Append(frameLog, Dropped(now))
         /\ UNCHANGED <<ambientNoiseFloorRms, speechGateOpenUntilMs, sent>>
    ELSE LET dynamicThreshold ==
                 Max(minSpeechRms, (ambientNoiseFloorRms * 22) \div 10)
             effectiveThreshold ==
                 IF isPlaying THEN dynamicThreshold * 3 ELSE dynamicThreshold
             isSpeech == rms >= effectiveThreshold
             adaptRate == IF rms > ambientNoiseFloorRms THEN 12 ELSE 3
             adapted == ambientNoiseFloorRms
                          + ((rms - ambientNoiseFloorRms) * adaptRate) \div 100
             openUntil == IF isSpeech THEN now + gateHoldMs
                          ELSE speechGateOpenUntilMs
             gateOpen == isSpeech \/ now < openUntil
             normalizedLevel ==
                 IF gateOpen
                 THEN Min(1000000,
                          Max(0, (rms - (effectiveThreshold * 45) \div 100) * 16))
                 ELSE 0
             frame == IF gateOpen THEN "realtimeInput:audio"
                      ELSE "realtimeInput:silence"
         IN  /\ speechGateOpenUntilMs' = openUntil
             /\ ambientNoiseFloorRms' =
                   IF isSpeech THEN ambientNoiseFloorRms
                   ELSE Min(Max(adapted, NoiseFloorMin), NoiseFloorMax)
             /\ sent' = send(frame, FALSE)
             /\ frameLog' =
                   Append(frameLog,
                          [now |-> now, connected |-> TRUE, speech |-> isSpeech,
                           open |-> gateOpen,
                           frame |-> IF ws THEN frame ELSE "none",
                           level |-> normalizedLevel, reported |-> TRUE])

\* processorNode.onaudioprocess, elapsed milliseconds after the previous
\* callback.
onaudioprocess(rms, elapsed) ==
    /\ liveProcessors > 0
    /\ nowMs' = nowMs + elapsed
    /\ callTick' = 1 - callTick
    /\ sendAudioChunk(rms, nowMs + elapsed)
    /\ UNCHANGED <<state, ws, sock, audioContext, setupCompleted, intentionalClose,
                   connectResolve, setupTimeout, timerPending, promise,
                   mediaStream, inputAudioContext, processorNode, liveProcessors,
                   playbackVars, micCalls, startCount, callbackLog, stateTrace,
                   msgCount, setupSeen, codecVars>>
    /\ UNCHANGED <<relayVars, pageVars>>

\* processorNode.onaudioprocess, one buffer period after the previous one.
AudioProcess(rms) ==
    /\ nowMs < MaxAudioFrames * FrameMs
    /\ Len(sent) <= MaxSent
    /\ onaudioprocess(rms, FrameMs)

\* processorNode.onaudioprocess of a capture session followed for
\* MaxGateFrames callbacks, on time or bunched by a busy main thread.
CaptureFrame(rms, elapsed) ==
    /\ Len(frameLog) < MaxGateFrames
    /\ onaudioprocess(rms, elapsed)

(***************************************************************************)
(* PCM16 conversion of one buffer.  A Float32Array sample is the rational  *)
(* n / SampleDen, kept as its numerator n; an Int16Array element is an     *)
(* integer; a decoded sample is the rational v / DecodeScale, kept as v.   *)
(* JavaScript computes the products in double precision, which is exact    *)
(* for a 24-bit sample times a 15-bit scale.  The base64 text carries the  *)
(* bytes unchanged (btoa and atob are inverse on byte strings).            *)
(***************************************************************************)
\* Samples are multiples of 2^-16, a step a 32-bit float resolves on all of
\* [-1, 1].
SampleDen == 65536
NegativeScale == 32768
PositiveScale == 32767
DecodeScale == 32768

\* The samples tried: multiples of an odd stride from below -1 to above 1,
\* the two ends of the range, and zero.
MaxSample == 20
SampleStride == 4099
Samples ==
    {i * SampleStride : i \in (0 - MaxSample)..MaxSample} \cup {0 - SampleDen, SampleDen}

\* Math.max(-1, Math.min(1, x)) on numerators.
Clamp(n) == Max(0 - SampleDen, Min(SampleDen, n))

\* The conversion of a number to an Int16Array element: the fraction is
\* dropped (toward zero), the result wraps to 16 bits.
\* s * scale / SampleDen for a numerator s; the product is taken in two
\* parts so that it stays within 32 bits.
Trunc(s, scale) ==
    LET magnitude == IF s >= 0 THEN s ELSE 0 - s
        whole == (magnitude \div SampleDen) * scale
                   + ((magnitude % SampleDen) * scale) \div SampleDen
    IN  IF s >= 0 THEN whole ELSE 0 - whole
ToInt16(v) == ((v + 32768) % 65536) - 32768

\* The two bytes of an Int16Array element in a Uint8Array over the same
\* buffer, and the element of an Int16Array over two bytes.
Int16Bytes(v) == LET u == v % 65536 IN <<u % 256, u \div 256>>
BytesInt16(lo, hi) == LET u == lo + 256 * hi IN IF u >= 32768 THEN u - 65536 ELSE u

\* sendAudioChunk: int16Data[i] = s < 0 ? s * 0x8000 : s * 0x7fff.
encodeSample(n) ==
    LET s == Clamp(n)
    IN  ToInt16(IF s < 0 THEN Trunc(s, NegativeScale)
                ELSE Trunc(s, PositiveScale))

RECURSIVE encode(_)
encode(samples) ==
    IF samples = <<>> THEN <<>>
    ELSE Int16Bytes(encodeSample(Head(samples))) \o encode(Tail(samples))

\* processAudioQueue: float32Array[i] = int16Array[i] / 32768, kept as the
\* numerator over DecodeScale.
RECURSIVE decode(_)
decode(bytes) ==
    IF Len(bytes) < 2 THEN <<>>
    ELSE <<BytesInt16(bytes[1], bytes[2])>> \o decode(SubSeq(bytes, 3, Len(bytes)))

\* The Float32 to Int16 loop of sendAudioChunk on the buffer at hand.
EncodeChunk ==
    /\ float32Data # <<>>
    /\ int16Data = <<>>
    /\ int16Data' = encode(float32Data)
    /\ UNCHANGED <<float32Data, float32Array>>
    /\ UNCHANGED <<state, ws, sock, audioContext, setupCompleted, intentionalClose,
                   connectResolve, setupTimeout, timerPending, promise,
                   audioVars, playbackVars, micCalls, startCount, nowMs, frameLog,
                   sent, callbackLog, stateTrace, msgCount, setupSeen, callTick>>
    /\ UNCHANGED <<relayVars, pageVars>>

\* The Int16 to Float32 loop of processAudioQueue on those bytes.
DecodeChunk ==
    /\ int16Data # <<>>
    /\ float32Array = <<>>
    /\ float32Array' = decode(int16Data)
    /\ UNCHANGED <<float32Data, int16Data>>
    /\ UNCHANGED <<state, ws, sock, audioContext, setupCompleted, intentionalClose,
                   connectResolve, setupTimeout, timerPending, promise,
                   audioVars, playbackVars, micCalls, startCount, nowMs, frameLog,
                   sent, callbackLog, stateTrace, msgCount, setupSeen, callTick>>
    /\ UNCHANGED <<relayVars, pageVars>>

CodecNext ==
    \/ EncodeChunk
    \/ DecodeChunk

\* startAudioInput() up to its first await (getUserMedia).
StartAudioInput ==
    /\ UNCHANGED callTick
    /\ IF ~audioContext \/ state # "connected"
       THEN UNCHANGED <<audioVars, micCalls, startCount>>
       ELSE IF mediaStream /\ processorNode /\ inputAudioContext
       THEN UNCHANGED <<audioVars, micCalls, startCount>>
       ELSE /\ startCount < MaxAudioStarts
            /\ stopAudioInput
            /\ micCalls' = micCalls + 1
            /\ startCount' = startCount + 1
    /\ UNCHANGED <<state, ws, sock, audioContext, setupCompleted, intentionalClose,
                   connectResolve, setupTimeout, timerPending, promise,
                   playbackVars, nowMs, codecVars, frameLog, sent, callbackLog, stateTrace, msgCount,
                   setupSeen>>
    /\ UNCHANGED <<relayVars, pageVars>>

\* startAudioInput() after the microphone stream was granted: the capture
\* graph is built (the input context is running, resume() is not awaited).
MicGranted ==
    /\ micCalls > 0
    /\ micCalls' = micCalls - 1
    /\ mediaStream' = TRUE
    /\ inputAudioContext' = TRUE
    /\ processorNode' = TRUE
    /\ liveProcessors' = liveProcessors + 1
    /\ UNCHANGED <<state, ws, sock, audioContext, setupCompleted, intentionalClose,
                   connectResolve, setupTimeout, timerPending, promise,
                   ambientNoiseFloorRms, speechGateOpenUntilMs, playbackVars,
                   startCount, nowMs, codecVars, frameLog, sent, callbackLog, stateTrace, msgCount,
                   setupSeen, callTick>>
    /\ UNCHANGED <<relayVars, pageVars>>

\* startAudioInput() after getUserMedia rejected: the catch block.
MicDenied ==
    /\ micCalls > 0
    /\ micCalls' = micCalls - 1
    /\ callbackLog' = Append(callbackLog, "onError:mic")
    /\ UNCHANGED <<state, ws, sock, audioContext, setupCompleted, intentionalClose,
                   connectResolve, setupTimeout, timerPending, promise, audioVars,
                   playbackVars, startCount, nowMs, codecVars, frameLog, sent, stateTrace, msgCount,
                   setupSeen, callTick>>
    /\ UNCHANGED <<relayVars, pageVars>>

\* source.onended that reports completion whenever the queue is empty.
SourceEnded_IgnoresScheduled(id) ==
    /\ id \in liveSources
    /\ currentTime' = IF id \in stoppedSources \/ currentTime >= bufferSources[id].end
                      THEN currentTime ELSE bufferSources[id].end
    /\ liveSources' = liveSources \ {id}
    /\ scheduledSources' = scheduledSources \ {id}
    /\ IF audioQueue = <<>>
       THEN /\ isPlaying' = FALSE
            /\ callbackLog' = Append(callbackLog, "onPlaybackComplete")
       ELSE UNCHANGED <<isPlaying, callbackLog>>
    /\ UNCHANGED <<state, ws, sock, audioContext, setupCompleted, intentionalClose,
                   connectResolve, setupTimeout, timerPending, promise, audioVars,
                   audioQueue, nextPlayTime, bufferSources, stoppedSources,
                   micCalls, startCount, nowMs, codecVars, frameLog, sent,
                   stateTrace, msgCount, setupSeen, callTick>>
    /\ UNCHANGED <<relayVars, pageVars>>

\* source.onended of one buffer source: the source was stopped, or the clock
\* has reached the end of its buffer.
SourceEnded(id) ==
    /\ id \in liveSources
    /\ currentTime' = IF id \in stoppedSources \/ currentTime >= bufferSources[id].end
                      THEN currentTime ELSE bufferSources[id].end
    /\ liveSources' = liveSources \ {id}
    /\ scheduledSources' = scheduledSources \ {id}
    /\ IF scheduledSources' = {} /\ audioQueue = <<>>
       THEN /\ isPlaying' = FALSE
            /\ callbackLog' = Append(callbackLog, "onPlaybackComplete")
       ELSE UNCHANGED <<isPlaying, callbackLog>>
    /\ UNCHANGED <<state, ws, sock, audioContext, setupCompleted, intentionalClose,
                   connectResolve, setupTimeout, timerPending, promise, audioVars,
                   audioQueue, nextPlayTime, bufferSources, stoppedSources,
                   micCalls, startCount, nowMs, codecVars, frameLog, sent,
                   stateTrace, msgCount, setupSeen, callTick>>
    /\ UNCHANGED <<relayVars, pageVars>>

\* ws.onmessage -> handleMessage(data) for a serverContent message.
WsContent(c) ==
    /\ sock = "OPEN"
    /\ msgCount <= MaxContentMsgs
    /\ msgCount' = msgCount + 1
    /\ serverContent(c)
    /\ UNCHANGED <<state, ws, sock, audioContext, setupCompleted, intentionalClose,
                   connectResolve, setupTimeout, timerPending, promise, audioVars,
                   micCalls, startCount, nowMs, codecVars, frameLog, sent, stateTrace, setupSeen,
                   callTick>>
    /\ UNCHANGED <<relayVars, pageVars>>

\* interrupt() called by the page.
Interrupt ==
    /\ stopPlayback
    /\ UNCHANGED <<state, ws, sock, audioContext, setupCompleted, intentionalClose,
                   connectResolve, setupTimeout, timerPending, promise, audioVars,
                   micCalls, startCount, nowMs, codecVars, frameLog, sent, callbackLog, stateTrace,
                   msgCount, setupSeen, callTick>>
    /\ UNCHANGED <<relayVars, pageVars>>

\* The output context's clock advances while the context exists.
Tick ==
    /\ audioContext
    /\ currentTime < MaxTime
    /\ currentTime' = currentTime + 1
    /\ UNCHANGED <<state, ws, sock, audioContext, setupCompleted, intentionalClose,
                   connectResolve, setupTimeout, timerPending, promise, audioVars,
                   isPlaying, audioQueue, scheduledSources, nextPlayTime,
                   liveSources, bufferSources, stoppedSources,
                   micCalls, startCount, nowMs, codecVars, frameLog, sent, callbackLog, stateTrace,
                   msgCount, setupSeen, callTick>>
    /\ UNCHANGED <<relayVars, pageVars>>

\* Most buffer sources one playback session creates.
MaxBuffers == 2 * MaxContentMsgs

GateNext ==
    \/ \E rms \in GateRmsInputs, elapsed \in ElapsedMs : CaptureFrame(rms, elapsed)
    \/ \E c \in {AudioFrame} : WsContent(c)
    \/ \E id \in 1..MaxBuffers : SourceEnded(id)

\* What the buffers of a session hold whose callbacks come at the frame
\* period: silence, speech, a buffer with a sample that is not a number.
SessionRmsInputs == {0, 200000, NonFiniteRms}

SessionNext ==
    \/ \E rms \in SessionRmsInputs : CaptureFrame(rms, FrameMs)
    \/ \E c \in {AudioFrame} : WsContent(c)
    \/ WsErrorFrame
    \/ \E id \in 1..MaxBuffers : SourceEnded(id)

PlaybackNext ==
    \/ \E c \in ContentMsgs : WsContent(c)
    \/ Interrupt
    \/ Tick
    \/ \E id \in 1..MaxBuffers : SourceEnded(id)

ClientNext ==
    \/ \E outcome \in {"ok", "AudioContext", "WebSocketUrl"} : Connect(outcome)
    \/ WsOpen
    \/ \E m \in ServerMsgs : WsMessage(m)
    \/ WsError
    \/ WsClose
    \/ SetupTimeoutFires
    \/ Disconnect
    \/ \E op \in SendOps : ApiSend(op)
    \/ \E rms \in RmsInputs : AudioProcess(rms)
    \/ StartAudioInput
    \/ MicGranted
    \/ MicDenied
    \/ \E id \in 1..MaxServerMsgs : SourceEnded(id)

(***************************************************************************)
(* The chat page: inputs and bounds.                                       *)
(***************************************************************************)
\* Inputs one page takes: user messages committed, REQUIRE_EDIT_CONFIRM
\* events, presses of pause and presses of confirm, together.
MaxPageInputs == 3

\* editPrompt values of an /api/extract-edit-intent reply; "none" is a reply
\* with isEditRequest false.
IntentReplies == {"none", " add a hat", "make  it  warmer"}

\* instruction values of a REQUIRE_EDIT_CONFIRM event.
RequiredInstructions == {" ", "make  it  warmer"}

\* Base64 payloads of the image startLiveSession is given: a data URL with
\* a payload, and one that ends at its comma.
PageImages == {"AAA", ""}

\* String.prototype.trim
trim(value) ==
    CASE value = " " -> ""
      [] value = " add a hat" -> "add a hat"
      [] OTHER -> value

\* LiveSession.startAudioInput up to its first await, for the caller tag:
\* what it returns at once, or that it now waits for getUserMedia.
startAudioInput(tag) ==
    IF ~sessionConnected THEN [ret |-> "false", requests |-> micRequests]
    ELSE IF capturing THEN [ret |-> "true", requests |-> micRequests]
    ELSE [ret |-> "pending", requests |-> micRequests \cup {tag}]

\* LiveSession.confirmEdit / cancelEditConfirm: the frame is sent only while
\* the session is connected.
sessionSend(frame) ==
    IF sessionConnected THEN Append(pageSent, frame) ELSE pageSent

\* One connect() call of the ladder.
Attempt(mode, credential, instance) ==
    [mode |-> mode, credential |-> credential, instance |-> instance,
     outcome |-> "pending"]

Settle(log, outcome) ==
    [log EXCEPT ![Len(log)] = [@ EXCEPT !.outcome = outcome]]

PageInit ==
    /\ sessionState = "idle"
    /\ isEditing = FALSE
    /\ pendingEditPrompt = ""
    /\ showEditConfirm = FALSE
    /\ queuedEditConfirm = FALSE
    /\ isPaused = FALSE
    /\ assistantAudioInCurrentTurn = FALSE
    /\ activeImage = ""
    /\ liveSessionRef = 0
    /\ sessionMode = "none"
    /\ sessionConnected = FALSE
    /\ capturing = FALSE
    /\ micRequests = {}
    /\ ladder = "idle"
    /\ proxyConfigured = FALSE
    /\ attempts = <<>>
    /\ intentInFlight = 0
    /\ pageInputs = 0
    /\ pageSent = <<>>
    /\ appEventsSeen = 0
    /\ confirmLog = <<>>
    /\ overwritten = FALSE
    /\ transcriptEntries = <<>>
    /\ pendingCloses = {}
    /\ framesSeen = 0

(***************************************************************************)
(* The chat page: startLiveSession and its fallback ladder.                *)
(***************************************************************************)
\* startLiveSession up to its first await of session.connect(): proxy mode
\* needs no credential, direct mode awaits requestLiveToken first.
StartLiveSession(img, proxy, token) ==
    /\ ladder = "idle"
    /\ proxyConfigured' = proxy
    /\ IF ~proxy /\ ~token
       THEN /\ ladder' = "done"
            /\ UNCHANGED <<sessionState, isPaused, isEditing, activeImage,
                           liveSessionRef, sessionMode, attempts>>
       ELSE /\ sessionState' = "connecting"
            /\ isPaused' = FALSE
            /\ isEditing' = FALSE
            /\ activeImage' = img
            /\ liveSessionRef' = liveSessionRef + 1
            /\ sessionMode' = IF proxy THEN "proxy" ELSE "direct"
            /\ attempts' = <<Attempt(IF proxy THEN "proxy" ELSE "direct",
                                     IF proxy THEN "__proxy__" ELSE "token",
                                     liveSessionRef + 1)>>
            /\ ladder' = "connect1"
    /\ UNCHANGED <<pendingEditPrompt, showEditConfirm, queuedEditConfirm,
                   assistantAudioInCurrentTurn, sessionConnected, capturing,
                   micRequests, intentInFlight, pageInputs, pageSent,
                   appEventsSeen, confirmLog, overwritten, transcriptEntries,
                   pendingCloses, framesSeen>>
    /\ UNCHANGED <<relayVars, clientVars>>

\* The ladder without its checks of connected: it climbs on after a success.
ConnectSucceeds_KeepsClimbing ==
    /\ ladder \in {"connect1", "connect2", "connect3"}
    /\ sessionConnected' = TRUE
    /\ isPaused' = FALSE
    /\ sessionState' = "connecting"
    /\ micRequests' = micRequests \cup {"onConnected"}
    /\ attempts' = Settle(attempts, "ok")
    /\ ladder' = CASE ladder = "connect1" /\ proxyConfigured -> "delay"
                   [] ladder = "connect2" -> "token"
                   [] OTHER -> "done"
    /\ UNCHANGED <<isEditing, pendingEditPrompt, showEditConfirm,
                   queuedEditConfirm, assistantAudioInCurrentTurn,
                   activeImage, liveSessionRef, sessionMode, capturing,
                   proxyConfigured, intentInFlight, pageInputs, pageSent,
                   appEventsSeen, confirmLog, overwritten, transcriptEntries,
                   pendingCloses, framesSeen>>
    /\ UNCHANGED <<relayVars, clientVars>>

\* session.connect() resolved true: onConnected ran, then the ladder's
\* continuation, which skips both fallbacks.
ConnectSucceeds ==
    /\ ladder \in {"connect1", "connect2", "connect3"}
    /\ sessionConnected' = TRUE
    /\ isPaused' = FALSE
    /\ sessionState' = "connecting"
    /\ micRequests' = micRequests \cup {"onConnected"}
    /\ attempts' = Settle(attempts, "ok")
    /\ ladder' = "done"
    /\ UNCHANGED <<isEditing, pendingEditPrompt, showEditConfirm,
                   queuedEditConfirm, assistantAudioInCurrentTurn,
                   activeImage, liveSessionRef, sessionMode, capturing,
                   proxyConfigured, intentInFlight, pageInputs, pageSent,
                   appEventsSeen, confirmLog, overwritten, transcriptEntries,
                   pendingCloses, framesSeen>>
    /\ UNCHANGED <<relayVars, clientVars>>

\* session.connect() resolved false: onError ran (and onDisconnected, if the
\* socket closed), then the ladder's continuation: disconnect() and the 600 ms
\* wait after the first proxy attempt, requestLiveToken after the second,
\* the failure block otherwise.
ConnectFails ==
    /\ ladder \in {"connect1", "connect2", "connect3"}
    /\ showEditConfirm' = FALSE
    /\ pendingEditPrompt' = ""
    /\ isEditing' = FALSE
    /\ isPaused' = FALSE
    /\ assistantAudioInCurrentTurn' = FALSE
    /\ sessionState' = "idle"
    /\ attempts' = Settle(attempts, "failed")
    /\ ladder' = CASE ladder = "connect1" /\ proxyConfigured -> "delay"
                   [] ladder = "connect2" -> "token"
                   [] OTHER -> "done"
    /\ UNCHANGED <<queuedEditConfirm, activeImage, liveSessionRef,
                   sessionMode, sessionConnected, capturing, micRequests,
                   proxyConfigured, intentInFlight, pageInputs, pageSent,
                   appEventsSeen, confirmLog, overwritten, transcriptEntries,
                   pendingCloses, framesSeen>>
    /\ UNCHANGED <<relayVars, clientVars>>

\* The 600 ms wait is over: a second proxy session is created and connected.
RetryDelayElapsed ==
    /\ ladder = "delay"
    /\ sessionState' = "connecting"
    /\ liveSessionRef' = liveSessionRef + 1
    /\ sessionMode' = "proxy"
    /\ attempts' = Append(attempts, Attempt("proxy", "__proxy__", liveSessionRef + 1))
    /\ ladder' = "connect2"
    /\ UNCHANGED <<isEditing, pendingEditPrompt, showEditConfirm,
                   queuedEditConfirm, isPaused, assistantAudioInCurrentTurn,
                   activeImage, sessionConnected, capturing, micRequests,
                   proxyConfigured, intentInFlight, pageInputs, pageSent,
                   appEventsSeen, confirmLog, overwritten, transcriptEntries,
                   pendingCloses, framesSeen>>
    /\ UNCHANGED <<relayVars, clientVars>>

\* requestLiveToken() returned: with a token a direct session is created and
\* connected, without one the failure block runs.
TokenReply(token) ==
    /\ ladder = "token"
    /\ IF token
       THEN /\ sessionState' = "connecting"
            /\ liveSessionRef' = liveSessionRef + 1
            /\ sessionMode' = "direct"
            /\ attempts' = Append(attempts, Attempt("direct", "token", liveSessionRef + 1))
            /\ ladder' = "connect3"
            /\ UNCHANGED <<showEditConfirm, pendingEditPrompt, isPaused,
                           assistantAudioInCurrentTurn>>
       ELSE /\ showEditConfirm' = FALSE
            /\ pendingEditPrompt' = ""
            /\ isPaused' = FALSE
            /\ assistantAudioInCurrentTurn' = FALSE
            /\ sessionState' = "idle"
            /\ ladder' = "done"
            /\ UNCHANGED <<liveSessionRef, sessionMode, attempts>>
    /\ UNCHANGED <<isEditing, queuedEditConfirm, activeImage,
                   sessionConnected, capturing, micRequests, proxyConfigured,
                   intentInFlight, pageInputs, pageSent, appEventsSeen,
                   confirmLog, overwritten, transcriptEntries, pendingCloses,
                   framesSeen>>
    /\ UNCHANGED <<relayVars, clientVars>>

\* ws.onclose of an instance the ladder has called disconnect() on: the
\* close was intentional, so onError is skipped and onDisconnected runs.
LateClose(id) ==
    /\ id \in pendingCloses
    /\ pendingCloses' = pendingCloses \ {id}
    /\ showEditConfirm' = FALSE
    /\ pendingEditPrompt' = ""
    /\ isEditing' = FALSE
    /\ isPaused' = FALSE
    /\ assistantAudioInCurrentTurn' = FALSE
    /\ sessionState' = "idle"
    /\ UNCHANGED <<queuedEditConfirm, activeImage, liveSessionRef,
                   sessionMode, sessionConnected, capturing, micRequests,
                   ladder, proxyConfigured, attempts, intentInFlight,
                   pageInputs, pageSent, appEventsSeen, confirmLog,
                   overwritten, transcriptEntries, framesSeen>>
    /\ UNCHANGED <<relayVars, clientVars>>

\* session.connect() resolved false from the setup timeout: onError ran, the
\* timeout handler called disconnect(), whose close(1000) the other side has
\* not answered yet; then the ladder's continuation as in ConnectFails.
ConnectTimesOut ==
    /\ ladder \in {"connect1", "connect2", "connect3"}
    /\ showEditConfirm' = FALSE
    /\ pendingEditPrompt' = ""
    /\ isEditing' = FALSE
    /\ isPaused' = FALSE
    /\ assistantAudioInCurrentTurn' = FALSE
    /\ sessionState' = "idle"
    /\ attempts' = Settle(attempts, "failed")
    /\ pendingCloses' = pendingCloses \cup {liveSessionRef}
    /\ ladder' = CASE ladder = "connect1" /\ proxyConfigured -> "delay"
                   [] ladder = "connect2" -> "token"
                   [] OTHER -> "done"
    /\ UNCHANGED <<queuedEditConfirm, activeImage, liveSessionRef,
                   sessionMode, sessionConnected, capturing, micRequests,
                   proxyConfigured, intentInFlight, pageInputs, pageSent,
                   appEventsSeen, confirmLog, overwritten, transcriptEntries,
                   framesSeen>>
    /\ UNCHANGED <<relayVars, clientVars>>

(***************************************************************************)
(* The chat page: session callbacks.                                       *)
(***************************************************************************)
\* ws.onclose of a connected session: cleanup(), then onDisconnected.
SessionDropped ==
    /\ sessionConnected
    /\ sessionConnected' = FALSE
    /\ capturing' = FALSE
    /\ showEditConfirm' = FALSE
    /\ pendingEditPrompt' = ""
    /\ isEditing' = FALSE
    /\ isPaused' = FALSE
    /\ assistantAudioInCurrentTurn' = FALSE
    /\ sessionState' = "idle"
    /\ UNCHANGED <<queuedEditConfirm, activeImage, liveSessionRef,
                   sessionMode, micRequests, ladder, proxyConfigured,
                   attempts, intentInFlight, pageInputs, pageSent,
                   appEventsSeen, confirmLog, overwritten, transcriptEntries,
                   pendingCloses, framesSeen>>
    /\ UNCHANGED <<relayVars, clientVars>>

\* getUserMedia settled for one waiting startAudioInput call, then the
\* caller's continuation. A denial reaches the page's onError first.
MicReply(tag, granted) ==
    /\ tag \in micRequests
    /\ micRequests' = micRequests \ {tag}
    /\ IF granted
       THEN /\ capturing' = TRUE
            /\ IF tag = "resume"
               THEN /\ isPaused' = FALSE
                    /\ sessionState' = "listening"
               ELSE UNCHANGED <<isPaused, sessionState>>
            /\ UNCHANGED <<showEditConfirm, pendingEditPrompt, isEditing,
                           assistantAudioInCurrentTurn>>
       ELSE /\ showEditConfirm' = FALSE
            /\ pendingEditPrompt' = ""
            /\ isEditing' = FALSE
            /\ isPaused' = FALSE
            /\ assistantAudioInCurrentTurn' = FALSE
            /\ sessionState' = "idle"
            /\ UNCHANGED capturing
    /\ UNCHANGED <<queuedEditConfirm, activeImage, liveSessionRef,
                   sessionMode, sessionConnected, ladder, proxyConfigured,
                   attempts, intentInFlight, pageInputs, pageSent,
                   appEventsSeen, confirmLog, overwritten, transcriptEntries,
                   pendingCloses, framesSeen>>
    /\ UNCHANGED <<relayVars, clientVars>>

\* onAudioReceived
AudioReceived ==
    /\ sessionConnected
    /\ ~isPaused
    /\ assistantAudioInCurrentTurn' = TRUE
    /\ sessionState' = "speaking"
    /\ UNCHANGED <<isEditing, pendingEditPrompt, showEditConfirm,
                   queuedEditConfirm, isPaused, activeImage, liveSessionRef,
                   sessionMode, sessionConnected, capturing, micRequests,
                   ladder, proxyConfigured, attempts, intentInFlight,
                   pageInputs, pageSent, appEventsSeen, confirmLog,
                   overwritten, transcriptEntries, pendingCloses, framesSeen>>
    /\ UNCHANGED <<relayVars, clientVars>>

\* onPlaybackComplete
PlaybackComplete ==
    /\ sessionConnected
    /\ assistantAudioInCurrentTurn
    /\ assistantAudioInCurrentTurn' = FALSE
    /\ IF isPaused
       THEN /\ sessionState' = "paused"
            /\ UNCHANGED <<queuedEditConfirm, showEditConfirm>>
       ELSE /\ showEditConfirm' = (showEditConfirm \/ queuedEditConfirm)
            /\ queuedEditConfirm' = FALSE
            /\ sessionState' = IF sessionState = "editing" THEN sessionState
                               ELSE "listening"
    /\ UNCHANGED <<isEditing, pendingEditPrompt, isPaused, activeImage,
                   liveSessionRef, sessionMode, sessionConnected, capturing,
                   micRequests, ladder, proxyConfigured, attempts,
                   intentInFlight, pageInputs, pageSent, appEventsSeen,
                   confirmLog, overwritten, transcriptEntries, pendingCloses,
                   framesSeen>>
    /\ UNCHANGED <<relayVars, clientVars>>

\* handleTogglePause: continue restarts capture, pause stops it.
TogglePause ==
    /\ liveSessionRef # 0
    /\ sessionConnected
    /\ isPaused \/ pageInputs < MaxPageInputs
    /\ pageInputs' = IF isPaused THEN pageInputs ELSE pageInputs + 1
    /\ IF isPaused
       THEN LET r == startAudioInput("resume")
            IN  /\ micRequests' = r.requests
                /\ IF r.ret = "true"
                   THEN /\ isPaused' = FALSE
                        /\ sessionState' = "listening"
                   ELSE UNCHANGED <<isPaused, sessionState>>
                /\ UNCHANGED capturing
       ELSE /\ capturing' = FALSE
            /\ isPaused' = TRUE
            /\ sessionState' = "paused"
            /\ UNCHANGED micRequests
    /\ UNCHANGED <<isEditing, pendingEditPrompt, showEditConfirm,
                   queuedEditConfirm, assistantAudioInCurrentTurn,
                   activeImage, liveSessionRef, sessionMode, sessionConnected,
                   ladder, proxyConfigured, attempts, intentInFlight,
                   pageSent, appEventsSeen, confirmLog, overwritten,
                   transcriptEntries, pendingCloses, framesSeen>>
    /\ UNCHANGED <<relayVars, clientVars>>

(***************************************************************************)
(* The chat page: detecting an edit instruction.                           *)
(***************************************************************************)
\* commitUserMessage up to its await of /api/extract-edit-intent.
CommitUserMessage ==
    /\ sessionConnected
    /\ pageInputs < MaxPageInputs
    /\ pageInputs' = pageInputs + 1
    /\ intentInFlight' = intentInFlight + 1
    /\ UNCHANGED <<sessionState, isEditing, pendingEditPrompt,
                   showEditConfirm, queuedEditConfirm, isPaused,
                   assistantAudioInCurrentTurn, activeImage, liveSessionRef,
                   sessionMode, sessionConnected, capturing, micRequests,
                   ladder, proxyConfigured, attempts, pageSent, appEventsSeen,
                   confirmLog, overwritten, transcriptEntries, pendingCloses,
                   framesSeen>>
    /\ UNCHANGED <<relayVars, clientVars>>

\* commitUserMessage after the reply arrived.
IntentReply(reply) ==
    /\ intentInFlight > 0
    /\ intentInFlight' = intentInFlight - 1
    /\ IF reply # "none" /\ trim(reply) # ""
       THEN /\ pendingEditPrompt' = trim(reply)
            /\ overwritten' = (overwritten \/ pendingEditPrompt \notin {"", trim(reply)})
            /\ IF ~assistantAudioInCurrentTurn /\ sessionState # "speaking"
               THEN /\ showEditConfirm' = TRUE
                    /\ queuedEditConfirm' = FALSE
               ELSE /\ queuedEditConfirm' = TRUE
                    /\ UNCHANGED showEditConfirm
       ELSE UNCHANGED <<pendingEditPrompt, showEditConfirm, queuedEditConfirm,
                        overwritten>>
    /\ UNCHANGED <<sessionState, isEditing, isPaused,
                   assistantAudioInCurrentTurn, activeImage, liveSessionRef,
                   sessionMode, sessionConnected, capturing, micRequests,
                   ladder, proxyConfigured, attempts, pageInputs, pageSent,
                   appEventsSeen, confirmLog, transcriptEntries,
                   pendingCloses, framesSeen>>
    /\ UNCHANGED <<relayVars, clientVars>>

\* onAppEvent for a REQUIRE_EDIT_CONFIRM event.
RequireEditConfirm(instr) ==
    /\ sessionConnected
    /\ pageInputs < MaxPageInputs
    /\ pageInputs' = pageInputs + 1
    /\ IF trim(instr) = ""
       THEN UNCHANGED <<pendingEditPrompt, queuedEditConfirm, isEditing,
                        sessionState, overwritten>>
       ELSE /\ pendingEditPrompt' = trim(instr)
            /\ overwritten' = (overwritten \/ pendingEditPrompt \notin {"", trim(instr)})
            /\ queuedEditConfirm' = TRUE
            /\ isEditing' = FALSE
            /\ sessionState' = IF isPaused THEN sessionState ELSE "listening"
    /\ UNCHANGED <<showEditConfirm, isPaused, assistantAudioInCurrentTurn,
                   activeImage, liveSessionRef, sessionMode, sessionConnected,
                   capturing, micRequests, ladder, proxyConfigured, attempts,
                   intentInFlight, pageSent, appEventsSeen, confirmLog,
                   transcriptEntries, pendingCloses, framesSeen>>
    /\ UNCHANGED <<relayVars, clientVars>>

(***************************************************************************)
(* The chat page: confirm and cancel.                                      *)
(***************************************************************************)
\* The confirm and cancel buttons are rendered.
PromptRendered == showEditConfirm /\ pendingEditPrompt # "" /\ ~isEditing

\* The frame session.confirmEdit(editPrompt, base64, mimeType) builds.
ConfirmFrame ==
    [type |-> "CONFIRM_EDIT", enc |-> "compact",
     instr |-> trim(pendingEditPrompt), img |-> activeImage]

\* handleConfirmEdit calling session.confirmEdit twice.
handleConfirmEditPage_SendsTwice ==
    /\ PromptRendered
    /\ liveSessionRef # 0
    /\ pageInputs < MaxPageInputs
    /\ pageInputs' = pageInputs + 1
    /\ showEditConfirm' = FALSE
    /\ isEditing' = TRUE
    /\ sessionState' = "editing"
    /\ isPaused' = FALSE
    /\ pageSent' = IF sessionConnected
                   THEN pageSent \o <<ConfirmFrame, ConfirmFrame>>
                   ELSE pageSent
    /\ confirmLog' = Append(confirmLog,
            [instruction |-> trim(pendingEditPrompt), capturing |-> capturing,
             sent |-> sessionConnected])
    /\ micRequests' = startAudioInput("confirm").requests
    /\ UNCHANGED <<pendingEditPrompt, queuedEditConfirm,
                   assistantAudioInCurrentTurn, activeImage, liveSessionRef,
                   sessionMode, sessionConnected, capturing, ladder,
                   proxyConfigured, attempts, intentInFlight, appEventsSeen,
                   overwritten, transcriptEntries, pendingCloses, framesSeen>>
    /\ UNCHANGED <<relayVars, clientVars>>

\* handleConfirmEdit up to its await of startAudioInput().
handleConfirmEditPage ==
    /\ PromptRendered
    /\ liveSessionRef # 0
    /\ pageInputs < MaxPageInputs
    /\ pageInputs' = pageInputs + 1
    /\ showEditConfirm' = FALSE
    /\ isEditing' = TRUE
    /\ sessionState' = "editing"
    /\ isPaused' = FALSE
    /\ pageSent' = sessionSend(ConfirmFrame)
    /\ confirmLog' = Append(confirmLog,
            [instruction |-> trim(pendingEditPrompt), capturing |-> capturing,
             sent |-> sessionConnected])
    /\ micRequests' = startAudioInput("confirm").requests
    /\ UNCHANGED <<pendingEditPrompt, queuedEditConfirm,
                   assistantAudioInCurrentTurn, activeImage, liveSessionRef,
                   sessionMode, sessionConnected, capturing, ladder,
                   proxyConfigured, attempts, intentInFlight, appEventsSeen,
                   overwritten, transcriptEntries, pendingCloses, framesSeen>>
    /\ UNCHANGED <<relayVars, clientVars>>

\* handleCancelEdit without clearing the pending instruction.
handleCancelEdit_KeepsPending ==
    /\ PromptRendered
    /\ showEditConfirm' = FALSE
    /\ pageSent' = IF liveSessionRef # 0
                   THEN sessionSend([type |-> "CANCEL_EDIT_CONFIRM",
                                     enc |-> "compact", instr |-> "", img |-> ""])
                   ELSE pageSent
    /\ UNCHANGED <<sessionState, isEditing, pendingEditPrompt,
                   queuedEditConfirm, isPaused, assistantAudioInCurrentTurn,
                   activeImage, liveSessionRef, sessionMode, sessionConnected,
                   capturing, micRequests, ladder, proxyConfigured, attempts,
                   intentInFlight, pageInputs, appEventsSeen, confirmLog,
                   overwritten, transcriptEntries, pendingCloses, framesSeen>>
    /\ UNCHANGED <<relayVars, clientVars>>

\* handleCancelEdit: clearPendingEditConfirmation(true)
handleCancelEdit ==
    /\ PromptRendered
    /\ showEditConfirm' = FALSE
    /\ pendingEditPrompt' = ""
    /\ pageSent' = IF liveSessionRef # 0
                   THEN sessionSend([type |-> "CANCEL_EDIT_CONFIRM",
                                     enc |-> "compact", instr |-> "", img |-> ""])
                   ELSE pageSent
    /\ UNCHANGED <<sessionState, isEditing, queuedEditConfirm, isPaused,
                   assistantAudioInCurrentTurn, activeImage, liveSessionRef,
                   sessionMode, sessionConnected, capturing, micRequests,
                   ladder, proxyConfigured, attempts, intentInFlight,
                   pageInputs, appEventsSeen, confirmLog, overwritten,
                   transcriptEntries, pendingCloses, framesSeen>>
    /\ UNCHANGED <<relayVars, clientVars>>

(***************************************************************************)
(* The chat page and the relay.                                            *)
(***************************************************************************)
\* The relay's clientWs.on("message") for the next frame a proxy session
\* sent.
RelayReceives ==
    /\ sessionMode = "proxy"
    /\ recvCount < Len(pageSent)
    /\ ClientMessage(pageSent[recvCount + 1])

\* onAppEvent for the next EDIT_STATUS, EDIT_COMPLETED, EDIT_FAILED or
\* EDIT_CONFIRM_CANCELLED event the relay sent.
OnAppEvent ==
    /\ sessionConnected
    /\ sessionMode = "proxy"
    /\ appEventsSeen < Len(appEvents)
    /\ appEventsSeen' = appEventsSeen + 1
    /\ LET event == appEvents[appEventsSeen + 1]
       IN  CASE event.k = "EDIT_STATUS" /\ event.b = "editing" ->
                     /\ showEditConfirm' = FALSE
                     /\ isEditing' = TRUE
                     /\ sessionState' = "editing"
                     /\ UNCHANGED <<pendingEditPrompt, activeImage>>
                [] event.k = "EDIT_COMPLETED" ->
                     /\ isEditing' = FALSE
                     /\ activeImage' =
                            IF event.b # "" /\ trim(IF event.a # "" THEN event.a
                                                    ELSE pendingEditPrompt) # ""
                            THEN event.b ELSE activeImage
                     /\ showEditConfirm' = FALSE
                     /\ pendingEditPrompt' = ""
                     /\ sessionState' = "listening"
                [] event.k = "EDIT_FAILED" ->
                     /\ isEditing' = FALSE
                     /\ IF trim(event.a) # ""
                        THEN /\ pendingEditPrompt' = trim(event.a)
                             /\ showEditConfirm' = TRUE
                        ELSE UNCHANGED <<pendingEditPrompt, showEditConfirm>>
                     /\ sessionState' = IF isPaused THEN sessionState ELSE "listening"
                     /\ UNCHANGED activeImage
                [] event.k = "EDIT_CONFIRM_CANCELLED" ->
                     /\ showEditConfirm' = FALSE
                     /\ pendingEditPrompt' = ""
                     /\ UNCHANGED <<isEditing, sessionState, activeImage>>
                [] OTHER ->
                     UNCHANGED <<showEditConfirm, pendingEditPrompt, isEditing,
                                 sessionState, activeImage>>
    /\ UNCHANGED <<queuedEditConfirm, isPaused, assistantAudioInCurrentTurn,
                   liveSessionRef, sessionMode, sessionConnected, capturing,
                   micRequests, ladder, proxyConfigured, attempts,
                   intentInFlight, pageInputs, pageSent, confirmLog,
                   overwritten, transcriptEntries, pendingCloses, framesSeen>>
    /\ UNCHANGED <<relayVars, clientVars>>

\* The text handleMessage passes on for a transcript frame: the assistant's
\* text without thought tags and trimmed, the user's as it is.
cleanedText(role, text) ==
    IF role # "ai" THEN text
    ELSE CASE text = "<think>x</think>" -> ""
           [] text = "<think>x</think> hi" -> "hi"
           [] text = " hi " -> "hi"
           [] text = " " -> ""
           [] OTHER -> text

\* appendTranscriptEntry that compares with no earlier entry.
appendTranscriptEntry_NoCompare(prev, entry) ==
    IF ~entry.isFinal THEN prev
    ELSE LET normalized == normalizeWhitespace(entry.text)
         IN  IF normalized = "" THEN prev
             ELSE Append(prev, [role |-> entry.role, text |-> normalized,
                                isFinal |-> TRUE])

\* appendTranscriptEntry(entry): the updater of setTranscriptEntries applied
\* to prev.
appendTranscriptEntry(prev, entry) ==
    IF ~entry.isFinal THEN prev
    ELSE LET normalized == normalizeWhitespace(entry.text)
         IN  IF normalized = "" THEN prev
             ELSE IF /\ prev # <<>>
                     /\ prev[Len(prev)].role = entry.role
                     /\ prev[Len(prev)].text = normalized
             THEN prev
             ELSE Append(prev, [role |-> entry.role, text |-> normalized,
                                isFinal |-> TRUE])

\* The transcript event a relay frame carries.
EntryOf(f) == [role |-> f.a, text |-> f.b, isFinal |-> f.n = 1]

\* The session receives the relay's next frame; for a transcript frame
\* handleMessage invokes onTranscriptEntry, which is appendTranscriptEntry.
OnTranscriptFrame ==
    /\ sessionConnected
    /\ sessionMode = "proxy"
    /\ framesSeen < Len(toClient)
    /\ framesSeen' = framesSeen + 1
    /\ LET f == toClient[framesSeen + 1]
       IN  IF f.k = "transcript" /\ f.a \in {"user", "ai"}
              /\ cleanedText(f.a, f.b) # ""
           THEN transcriptEntries' =
                    appendTranscriptEntry(transcriptEntries,
                        [role |-> f.a, text |-> cleanedText(f.a, f.b),
                         isFinal |-> f.n = 1])
           ELSE UNCHANGED transcriptEntries
    /\ UNCHANGED <<sessionState, isEditing, pendingEditPrompt,
                   showEditConfirm, queuedEditConfirm, isPaused,
                   assistantAudioInCurrentTurn, activeImage, liveSessionRef,
                   sessionMode, sessionConnected, capturing, micRequests,
                   ladder, proxyConfigured, attempts, intentInFlight,
                   pageInputs, pageSent, appEventsSeen, confirmLog,
                   overwritten, pendingCloses>>
    /\ UNCHANGED <<relayVars, clientVars>>

TranscriptNext ==
    \/ \E raw \in UpstreamContents : GeminiContent(raw)
    \/ OnTranscriptFrame

\* Session instances one startLiveSession call creates.
MaxInstances == 3

LadderNext ==
    \/ \E img \in PageImages, proxy \in BOOLEAN, token \in BOOLEAN :
            StartLiveSession(img, proxy, token)
    \/ ConnectSucceeds
    \/ ConnectFails
    \/ ConnectTimesOut
    \/ RetryDelayElapsed
    \/ \E token \in BOOLEAN : TokenReply(token)
    \/ \E id \in 1..MaxInstances : LateClose(id)
    \/ \E tag \in {"onConnected", "confirm", "resume"}, granted \in BOOLEAN :
            MicReply(tag, granted)
    \/ SessionDropped

PageNext ==
    \/ \E img \in PageImages, proxy \in BOOLEAN, token \in BOOLEAN :
            StartLiveSession(img, proxy, token)
    \/ ConnectSucceeds
    \/ ConnectFails
    \/ RetryDelayElapsed
    \/ \E token \in BOOLEAN : TokenReply(token)
    \/ SessionDropped
    \/ \E tag \in {"onConnected", "confirm", "resume"}, granted \in BOOLEAN :
            MicReply(tag, granted)
    \/ AudioReceived
    \/ PlaybackComplete
    \/ TogglePause
    \/ CommitUserMessage
    \/ \E reply \in IntentReplies : IntentReply(reply)
    \/ \E instr \in RequiredInstructions : RequireEditConfirm(instr)
    \/ handleConfirmEditPage
    \/ handleCancelEdit
    \/ RelayReceives
    \/ OnAppEvent
    \/ \E i \in 1..MaxClientFrames : EditResolved(i)
    \/ \E i \in 1..MaxClientFrames : EditRejected(i)

\* One relay connection, with every interleaving of its handlers.
RelaySpecInit == RelayInit /\ ClientInit /\ PageInit

SpecRelay == RelaySpecInit /\ [][RelayNext]_vars

\* The relay's handlers that read or write editInProgress, and the socket
\* events that decide whether an edit's outcome can be delivered.
EditNext ==
    \/ \E data \in ClientFrames : ClientMessage(data)
    \/ \E i \in 1..MaxClientFrames : EditResolved(i)
    \/ \E i \in 1..MaxClientFrames : EditRejected(i)
    \/ GeminiOpen
    \/ ClientClose
    \/ ClientError

\* The edit collaborator answers: a runImageEdit call that is awaited
\* eventually resolves or rejects.
SpecEditFair ==
    /\ RelaySpecInit
    /\ [][EditNext]_vars
    /\ WF_vars(\E i \in 1..MaxClientFrames : EditResolved(i) \/ EditRejected(i))

\* The sockets and the heartbeat of one relay connection.
HeartbeatSpecInit == RelayInit /\ ClientInit /\ PageInit

SpecHeartbeat == HeartbeatSpecInit /\ [][HeartbeatNext]_vars

ClientSpecInit == RelayInit /\ geminiWs = "CONNECTING" /\ ClientInit /\ PageInit

\* One LiveSession instance, with every interleaving of its API calls, socket
\* events, timer and audio callbacks.
SpecClient == ClientSpecInit /\ [][ClientNext]_vars

\* The browser's event loop: a connecting socket opens or fails, a socket that
\* is open or closing is eventually closed, and an armed timer fires.
ClientFairness ==
    /\ WF_vars(WsOpen \/ WsError)
    /\ WF_vars(WsClose)
    /\ WF_vars(SetupTimeoutFires)

SpecClientFair == SpecClient /\ ClientFairness

\* A session after connect() resolved true: the socket is open, the
\* setupComplete message was handled, nothing was captured or played yet.
ConnectedClient ==
    /\ state = "connected"
    /\ ws = TRUE
    /\ sock = "OPEN"
    /\ audioContext = TRUE
    /\ setupCompleted = TRUE
    /\ intentionalClose = FALSE
    /\ connectResolve = FALSE
    /\ setupTimeout = FALSE
    /\ timerPending = FALSE
    /\ promise = "true"
    /\ mediaStream = FALSE
    /\ inputAudioContext = FALSE
    /\ processorNode = FALSE
    /\ ambientNoiseFloorRms = InitialNoiseFloor
    /\ speechGateOpenUntilMs = 0
    /\ isPlaying = FALSE
    /\ audioQueue = <<>>
    /\ scheduledSources = {}
    /\ nextPlayTime = 0
    /\ liveSources = {}
    /\ currentTime = 0
    /\ bufferSources = <<>>
    /\ stoppedSources = {}
    /\ micCalls = 0
    /\ liveProcessors = 0
    /\ startCount = 0
    /\ nowMs = 0
    /\ float32Data = <<>>
    /\ int16Data = <<>>
    /\ float32Array = <<>>
    /\ frameLog = <<>>
    /\ sent = <<"setup">>
    /\ callbackLog = <<"onConnected">>
    /\ stateTrace = <<"disconnected", "connecting", "connected">>
    /\ msgCount = 1
    /\ setupSeen = TRUE
    /\ callTick = 0

\* Playback of one connected session.
PlaybackSpecInit ==
    RelayInit /\ geminiWs = "CONNECTING" /\ ConnectedClient /\ PageInit

SpecPlayback == PlaybackSpecInit /\ [][PlaybackNext]_vars

\* A connected session whose startAudioInput() has built the capture graph.
CapturingClient ==
    /\ state = "connected"
    /\ ws = TRUE
    /\ sock = "OPEN"
    /\ audioContext = TRUE
    /\ setupCompleted = TRUE
    /\ intentionalClose = FALSE
    /\ connectResolve = FALSE
    /\ setupTimeout = FALSE
    /\ timerPending = FALSE
    /\ promise = "true"
    /\ mediaStream = TRUE
    /\ inputAudioContext = TRUE
    /\ processorNode = TRUE
    /\ ambientNoiseFloorRms = InitialNoiseFloor
    /\ speechGateOpenUntilMs = 0
    /\ isPlaying = FALSE
    /\ audioQueue = <<>>
    /\ scheduledSources = {}
    /\ nextPlayTime = 0
    /\ liveSources = {}
    /\ currentTime = 0
    /\ bufferSources = <<>>
    /\ stoppedSources = {}
    /\ micCalls = 0
    /\ liveProcessors = 1
    /\ startCount = 1
    /\ nowMs = 0
    /\ float32Data = <<>>
    /\ int16Data = <<>>
    /\ float32Array = <<>>
    /\ frameLog = <<>>
    /\ sent = <<"setup">>
    /\ callbackLog = <<"onConnected">>
    /\ stateTrace = <<"disconnected", "connecting", "connected">>
    /\ msgCount = 1
    /\ setupSeen = TRUE
    /\ callTick = 0

\* Capture of one connected session, with the assistant's audio starting and
\* ending meanwhile.
GateSpecInit ==
    RelayInit /\ geminiWs = "CONNECTING" /\ CapturingClient /\ PageInit

SpecGate == GateSpecInit /\ [][GateNext]_vars

\* The frames of one connected, capturing session in both directions:
\* microphone buffers going up, audio and error frames coming down.
SessionSpecInit ==
    RelayInit /\ geminiWs = "CONNECTING" /\ CapturingClient /\ PageInit

SpecSession == SessionSpecInit /\ [][SessionNext]_vars

\* A session object and one captured buffer of one sample.
CodecClient ==
    /\ state = "disconnected"
    /\ ws = FALSE
    /\ sock = "NONE"
    /\ audioContext = FALSE
    /\ setupCompleted = FALSE
    /\ intentionalClose = FALSE
    /\ connectResolve = FALSE
    /\ setupTimeout = FALSE
    /\ timerPending = FALSE
    /\ promise = "none"
    /\ mediaStream = FALSE
    /\ inputAudioContext = FALSE
    /\ processorNode = FALSE
    /\ ambientNoiseFloorRms = InitialNoiseFloor
    /\ speechGateOpenUntilMs = 0
    /\ isPlaying = FALSE
    /\ audioQueue = <<>>
    /\ scheduledSources = {}
    /\ nextPlayTime = 0
    /\ liveSources = {}
    /\ currentTime = 0
    /\ bufferSources = <<>>
    /\ stoppedSources = {}
    /\ micCalls = 0
    /\ liveProcessors = 0
    /\ startCount = 0
    /\ nowMs = 0
    /\ float32Data \in {<<n>> : n \in Samples}
    /\ int16Data = <<>>
    /\ float32Array = <<>>
    /\ frameLog = <<>>
    /\ sent = <<>>
    /\ callbackLog = <<>>
    /\ stateTrace = <<"disconnected">>
    /\ msgCount = 0
    /\ setupSeen = FALSE
    /\ callTick = 0

\* The PCM16 conversions applied to every sample tried, there and back.
CodecSpecInit == RelayInit /\ geminiWs = "CONNECTING" /\ CodecClient /\ PageInit

SpecCodec == CodecSpecInit /\ [][CodecNext]_vars

\* One chat page with the sessions it creates and the relay connection of its
\* proxy session, with every interleaving of user input, session callbacks,
\* replies and relay handlers.
PageSpecInit == RelayInit /\ geminiWs = "CONNECTING" /\ ClientInit /\ PageInit

SpecPage == PageSpecInit /\ [][PageNext]_vars

\* The collaborators of the page answer: the relay handles a frame sent to
\* it, a relay event is delivered to onAppEvent, an awaited runImageEdit
\* call settles and a pending getUserMedia call settles.
SpecPageFair ==
    /\ SpecPage
    /\ WF_vars(RelayReceives)
    /\ WF_vars(OnAppEvent)
    /\ WF_vars(\E i \in 1..MaxClientFrames : EditResolved(i) \/ EditRejected(i))
    /\ WF_vars(\E tag \in {"onConnected", "confirm", "resume"}, granted \in BOOLEAN :
                    MicReply(tag, granted))

\* One startLiveSession call with its fallback ladder and the session
\* instances it creates and abandons.
LadderSpecInit == RelayInit /\ geminiWs = "CONNECTING" /\ ClientInit /\ PageInit

SpecLadder == LadderSpecInit /\ [][LadderNext]_vars

\* The relay after the upstream socket opened and the handshake was relayed.
RelayConnected ==
    /\ geminiWs = "OPEN"
    /\ clientWs = "OPEN"
    /\ toClient = <<Frame("proxy", "connecting_upstream", "", 0),
                    Frame("proxy", "upstream_connected", "", 0),
                    Frame("upstream", "setupComplete", "", 1),
                    Frame("proxy", "ready_for_audio", "", 0)>>
    /\ geminiConnected = TRUE
    /\ heartbeatTimer = TRUE
    /\ liveTimers = 1
    /\ pings = <<>>
    /\ lastPartialTranscriptByRole = [user |-> "", ai |-> ""]
    /\ editInProgress = FALSE
    /\ editVersionCounter = 0
    /\ queue = <<>>
    /\ editCalls = <<>>
    /\ toGemini = <<>>
    /\ recvCount = 0
    /\ confirmCount = 0
    /\ appEvents = <<>>
    /\ pushed = <<>>
    /\ flushed = 0
    /\ upCount = 1
    /\ editLog = <<>>
    /\ handshakeRelayed = TRUE
    /\ clientGone = FALSE

\* The page after startLiveSession connected its session through the relay
\* at the first attempt, the handshake frames received.
PageConnected ==
    /\ sessionState = "connecting"
    /\ isEditing = FALSE
    /\ pendingEditPrompt = ""
    /\ showEditConfirm = FALSE
    /\ queuedEditConfirm = FALSE
    /\ isPaused = FALSE
    /\ assistantAudioInCurrentTurn = FALSE
    /\ activeImage = "AAA"
    /\ liveSessionRef = 1
    /\ sessionMode = "proxy"
    /\ sessionConnected = TRUE
    /\ capturing = FALSE
    /\ micRequests = {"onConnected"}
    /\ ladder = "done"
    /\ proxyConfigured = TRUE
    /\ attempts = Settle(<<Attempt("proxy", "__proxy__", 1)>>, "ok")
    /\ intentInFlight = 0
    /\ pageInputs = 0
    /\ pageSent = <<>>
    /\ appEventsSeen = 0
    /\ confirmLog = <<>>
    /\ overwritten = FALSE
    /\ transcriptEntries = <<>>
    /\ pendingCloses = {}
    /\ framesSeen = 4

\* Transcripts of one session connected through the relay.
TranscriptSpecInit == RelayConnected /\ ClientInit /\ PageConnected

SpecTranscript == TranscriptSpecInit /\ [][TranscriptNext]_vars

(***************************************************************************)
(* Properties of the relay.                                                *)
(***************************************************************************)
LastN(s, n) == IF Len(s) <= n THEN s ELSE SubSeq(s, Len(s) - n + 1, Len(s))

IdsIncrease(s) == \A i, j \in DOMAIN s : i < j => s[i].id < s[j].id

\* The EDIT_STATUS / EDIT_COMPLETED / EDIT_FAILED events of accepted edits
\* (the EDIT_FAILED of a rejected payload carries no instruction).
IsCycleEvent(e) ==
    e.k \in {"EDIT_STATUS", "EDIT_COMPLETED"} \/ (e.k = "EDIT_FAILED" /\ e.a # "")

EditCycle == SelectSeq(appEvents, IsCycleEvent)

\* An EDIT_STATUS is answered by at most one terminal event, for the same
\* instruction, and no terminal event comes without its EDIT_STATUS.
CycleAlternates(c) ==
    \A i \in DOMAIN c :
        IF i % 2 = 1
        THEN c[i].k = "EDIT_STATUS" /\ c[i].b = "editing"
        ELSE c[i].k \in {"EDIT_COMPLETED", "EDIT_FAILED"} /\ c[i].a = c[i - 1].a

ConfirmReceived == confirmCount' = confirmCount + 1
EditAccepted == Len(editLog') = Len(editLog) + 1
EditReturned == Len(editCalls') < Len(editCalls)
UpstreamClosed == geminiWs # "CLOSED" /\ geminiWs' = "CLOSED"

\* C1: at most one call of the image-edit collaborator is outstanding at any
\* time; a CONFIRM_EDIT received while an edit is in flight starts no call,
\* sends nothing and queues nothing, and a call starts only in the step that
\* receives a CONFIRM_EDIT with no edit in flight (never later, from a queue).
C1_AtMostOneEditInFlight ==
    [][ /\ Len(editCalls') <= 1
        /\ editInProgress' = (editCalls' # <<>>)
        /\ (ConfirmReceived /\ editInProgress) =>
               UNCHANGED <<editCalls, editLog, editInProgress, editVersionCounter,
                           appEvents, toClient, queue, pushed, toGemini>>
        /\ EditAccepted => (ConfirmReceived /\ ~editInProgress)
      ]_vars

\* A second CONFIRM_EDIT arrived while the first edit was running and was ignored.
C1_Witness ==
    /\ confirmCount = 2
    /\ editInProgress
    /\ Len(editLog) = 1
    /\ appEvents = <<Frame("EDIT_STATUS", "make it warmer", "editing", 0)>>

\* C2: the outbound queue never holds more than MAX_QUEUE_MESSAGES frames; it
\* holds the most recently pushed frames in their order of arrival (exactly
\* MAX_QUEUE_MESSAGES of them once more than that were pushed), and a push,
\* evicting or not, sends nothing to the client and closes nothing.
C2_QueueBound ==
    [][ /\ Len(queue') <= MAX_QUEUE_MESSAGES
        /\ queue' = LastN(pushed', MAX_QUEUE_MESSAGES)
        /\ Len(pushed') > MAX_QUEUE_MESSAGES => Len(queue') = MAX_QUEUE_MESSAGES
        /\ Len(pushed') > Len(pushed) =>
               UNCHANGED <<toClient, appEvents, clientWs, geminiWs>>
      ]_vars

\* More frames than the capacity were pushed while the upstream was not connected.
C2_Witness ==
    /\ ~geminiConnected
    /\ Len(pushed) > MAX_QUEUE_MESSAGES
    /\ Len(queue) = MAX_QUEUE_MESSAGES
    /\ queue[1].id = 2

\* C3: when the upstream opens, the queued frames are sent upstream in the
\* order they were received and the queue is left empty, so every frame sent
\* upstream afterwards follows them: the frames sent upstream are in order of
\* receipt, and no frame waits in the queue while frames are sent directly.
C3_QueueFlushedInOrder ==
    [][ /\ (geminiWs = "CONNECTING" /\ geminiWs' = "OPEN") =>
               /\ toGemini' = toGemini \o queue
               /\ queue' = <<>>
               /\ flushed' = Len(queue)
        /\ IdsIncrease(toGemini')
        /\ IdsIncrease(queue')
        /\ (geminiConnected' /\ geminiWs' = "OPEN") => queue' = <<>>
        /\ Len(toGemini') > Len(toGemini) =>
               (queue' = <<>> /\ geminiWs' = "OPEN")
      ]_vars

\* Two frames were queued, flushed at open, and a third was then sent directly.
C3_Witness ==
    /\ flushed = 2
    /\ Len(toGemini) = 3
    /\ toGemini[3].id = 3

\* C4 as stated: every CONFIRM_EDIT received with no edit in flight sends
\* EDIT_STATUS "editing" and sets the flag, and every return of the
\* collaborator sends exactly one terminal event and clears the flag.
C4_Original ==
    [][ /\ (ConfirmReceived /\ ~editInProgress) =>
               /\ editInProgress'
               /\ Len(appEvents') = Len(appEvents) + 1
               /\ appEvents'[Len(appEvents')].k = "EDIT_STATUS"
        /\ EditReturned =>
               /\ ~editInProgress'
               /\ Len(appEvents') = Len(appEvents) + 1
               /\ appEvents'[Len(appEvents')].k \in {"EDIT_COMPLETED", "EDIT_FAILED"}
      ]_vars

\* C4 (amended): a CONFIRM_EDIT received with no edit in flight and with
\* image data and an instruction that are not empty after whitespace
\* normalisation starts the collaborator and sets the edit-in-flight flag; the
\* flag stays set until the collaborator returns or throws and is clear
\* afterwards. While the client socket is open, EDIT_STATUS "editing" is sent
\* at acceptance and exactly one of EDIT_COMPLETED or EDIT_FAILED, for the
\* same instruction, at the return; an event due while the client socket is
\* not open is dropped. The events sent always alternate EDIT_STATUS,
\* terminal event.
C4_EditCycle ==
    [][ /\ EditAccepted =>
               /\ ConfirmReceived /\ ~editInProgress /\ editInProgress'
               /\ appEvents' =
                    IF clientWs = "OPEN"
                    THEN Append(appEvents,
                           Frame("EDIT_STATUS", editLog'[Len(editLog')], "editing", 0))
                    ELSE appEvents
        /\ EditReturned =>
               /\ editInProgress /\ ~editInProgress'
               /\ IF clientWs = "OPEN"
                  THEN /\ Len(appEvents') = Len(appEvents) + 1
                       /\ appEvents'[Len(appEvents')].k \in {"EDIT_COMPLETED", "EDIT_FAILED"}
                       /\ appEvents'[Len(appEvents')].a = editCalls[1].instruction
                  ELSE appEvents' = appEvents
        /\ (editInProgress /\ ~EditReturned) => editInProgress'
        /\ (~editInProgress /\ ~EditAccepted) => ~editInProgress'
        /\ CycleAlternates(SelectSeq(appEvents', IsCycleEvent))
      ]_vars

\* An accepted edit ran to completion with the client connected: EDIT_STATUS,
\* then EDIT_COMPLETED v1, and the flag is clear again.
C4_Witness ==
    /\ ~editInProgress
    /\ EditCycle = <<Frame("EDIT_STATUS", "make it warmer", "editing", 0),
                     Frame("EDIT_COMPLETED", "make it warmer", "BBB", 1)>>

\* C5 as stated: an upstream close before setupComplete was relayed sends an
\* error frame and then closes the client socket with the upstream's code; an
\* upstream close after it closes the client socket without an error frame.
C5_Original ==
    [][ (UpstreamClosed /\ clientWs = "OPEN") =>
            \E code \in UpstreamCloseCodes :
                toClient' =
                    IF handshakeRelayed
                    THEN Append(toClient, Frame("close", "", "", code))
                    ELSE toClient \o <<Frame("error", "upstream_closed", "", code),
                                       Frame("close", "", "", code)>>
      ]_vars

\* C5 (what the relay does): whenever the upstream socket closes while the
\* client socket is open, before or after setupComplete was relayed, the relay
\* sends the client an error frame and then closes the client socket with the
\* upstream's close code; when the client socket is not open it sends nothing.
C5_UpstreamCloseReported ==
    [][ UpstreamClosed =>
            IF clientWs = "OPEN"
            THEN /\ clientWs' = "CLOSING"
                 /\ \E code \in UpstreamCloseCodes :
                      toClient' = toClient \o
                          <<Frame("error", "upstream_closed", "", code),
                            Frame("close", "", "", code)>>
            ELSE UNCHANGED <<toClient, clientWs>>
      ]_vars

\* The upstream closed after the handshake and the client got error, then close.
C5_Witness ==
    /\ handshakeRelayed
    /\ geminiWs = "CLOSED"
    /\ Len(toClient) >= 2
    /\ toClient[Len(toClient) - 1] = Frame("error", "upstream_closed", "", 1000)
    /\ toClient[Len(toClient)] = Frame("close", "", "", 1000)

(***************************************************************************)
(* SessionClient properties.                                               *)
(***************************************************************************)
ErrorCount(log) ==
    Cardinality({i \in DOMAIN log :
                   log[i] \in {"onError:connect", "onError:socket", "onError:frame",
                               "onError:closedBeforeSetup", "onError:setupTimeout",
                               "onError:mic"}})

HappyTrace == <<"disconnected", "connecting", "connected">>

\* C6: the state becomes "connected", and connect() resolves true, only in the
\* step that receives setupComplete on the open socket of this connect() call;
\* and the first setupComplete takes the state through disconnected ->
\* connecting -> connected and resolves connect() to true.
C6_ConnectedOnlyAfterSetupComplete ==
    [][ /\ ((state' = "connected" /\ state # "connected")
              \/ (promise' = "true" /\ promise # "true"))
           => (sock = "OPEN" /\ setupSeen' /\ msgCount' = msgCount + 1)
        /\ (state' = "connected" \/ promise' = "true") => setupSeen'
        /\ (setupSeen' /\ ~setupSeen)
           => (state' = "connected" /\ promise' = "true"
               /\ stateTrace' = HappyTrace
               /\ sent[1] = "setup") ]_vars

C6_Witness ==
    /\ state = "connected"
    /\ promise = "true"
    /\ setupSeen
    /\ stateTrace = HappyTrace

\* C7: once the setup timer has fired on a socket that opened and delivered
\* nothing, connect() has resolved false, exactly one error callback has fired
\* (also after the close that the timeout's own disconnect() causes), and the
\* state is disconnected.
C7_SetupTimeout ==
    ( /\ \E i \in DOMAIN callbackLog : callbackLog[i] = "onError:setupTimeout"
      /\ sent # <<>>
      /\ msgCount = 0 )
    => ( /\ promise = "false"
         /\ ErrorCount(callbackLog) = 1
         /\ state = "disconnected" )

C7_Witness ==
    /\ callbackLog = <<"onError:setupTimeout", "onDisconnected">>
    /\ sock = "CLOSED"
    /\ sent = <<"setup">>
    /\ msgCount = 0
    /\ promise = "false"
    /\ state = "disconnected"

\* C8 (as claimed): every connect() call eventually resolves - a promise that
\* is pending does not stay pending forever.
C8_Original == (promise = "pending") ~> (promise # "pending")

\* C8 (what the code does): an attempt that ends by a socket close, or by
\* disconnect(), before the promise was resolved is left with no resolver.
C8_PendingWithoutResolver ==
    /\ promise = "pending"
    /\ ~connectResolve
    /\ ~timerPending
    /\ sock = "CLOSED"

\* C9: a step that appends a frame other than the setup frame to the socket
\* is taken in state "connected"; and sendText, sendImage, sendToolResult,
\* confirmEdit, cancelEditConfirm and an audio callback entered in any other
\* state send nothing and change no field of the session.
C9_SendOnlyWhileConnected ==
    [][ /\ (sent' # sent /\ sent'[Len(sent')] # "setup") => state = "connected"
        /\ (callTick' # callTick /\ state # "connected")
           => UNCHANGED <<state, ws, sock, audioContext, setupCompleted,
                          intentionalClose, connectResolve, setupTimeout,
                          timerPending, promise, audioVars, playbackVars,
                          micCalls, startCount, sent, callbackLog, stateTrace,
                          msgCount, setupSeen>> ]_vars

\* One audio callback and an odd number of outbound method calls were made,
\* all of them while not connected: nothing but the setup frame was sent.
C9_Witness ==
    /\ nowMs = FrameMs
    /\ callTick = 0
    /\ setupSeen
    /\ state = "disconnected"
    /\ sent = <<"setup">>

\* C10: the step in which the transport opens sends the setup frame as the
\* first frame of the socket, and no other step sends a setup frame or sends
\* anything on a socket that has no setup frame yet.
C10_OneSetupFrameAtOpen ==
    [][ IF sock = "CONNECTING" /\ sock' = "OPEN"
        THEN sent = <<>> /\ sent' = <<"setup">>
        ELSE \/ sent' = sent
             \/ /\ sent # <<>>
                /\ sent[1] = "setup"
                /\ \E f \in {FrameOf(op) : op \in SendOps}
                        \cup {"realtimeInput:audio", "realtimeInput:silence"} :
                      sent' = Append(sent, f) ]_vars

C10_Witness ==
    /\ Len(sent) >= 2
    /\ sent[1] = "setup"
    /\ \A i \in 2..Len(sent) : sent[i] # "setup"

\* disconnect() ran in this step: from the page, or from the setup timer.
DisconnectStep == Disconnect \/ (ws /\ ~ws')

\* A socket event is delivered on a socket the client asked to close
\* (this.ws is null only after disconnect()).
RequestedCloseEvent == ~ws /\ sock \in {"ABORTING", "CLOSING"} /\ sock' # sock

\* C11 as stated: disconnect() from any state stops audio capture, clears and
\* stops playback, closes the socket and leaves the state "disconnected"; the
\* socket close that results from disconnect() surfaces no error, and a close
\* the client did not request that arrives before setupComplete surfaces one.
C11_Original ==
    [][ /\ DisconnectStep =>
              /\ ~processorNode' /\ ~mediaStream' /\ ~inputAudioContext'
              /\ ~isPlaying' /\ audioQueue' = <<>> /\ scheduledSources' = {}
              /\ sock' \notin {"CONNECTING", "OPEN"}
              /\ state' = "disconnected"
        /\ RequestedCloseEvent => ErrorCount(callbackLog') = ErrorCount(callbackLog)
        /\ (sock' = "CLOSED" /\ sock # "CLOSED" /\ ~intentionalClose /\ ~setupCompleted)
              => ErrorCount(callbackLog') = ErrorCount(callbackLog) + 1 ]_vars

\* C11 (what the session does): as stated, except that only the close event of
\* a requested close is silent; the error event of a socket that disconnect()
\* closed while it was still connecting reaches ws.onerror, which reports it.
C11_DisconnectTearsDown ==
    [][ /\ DisconnectStep =>
              /\ ~processorNode' /\ ~mediaStream' /\ ~inputAudioContext'
              /\ ~isPlaying' /\ audioQueue' = <<>> /\ scheduledSources' = {}
              /\ sock' \notin {"CONNECTING", "OPEN"}
              /\ state' = "disconnected"
        /\ (RequestedCloseEvent /\ sock' = "CLOSED")
              => ErrorCount(callbackLog') = ErrorCount(callbackLog)
        /\ (sock' = "CLOSED" /\ sock # "CLOSED" /\ ~intentionalClose /\ ~setupCompleted)
              => ErrorCount(callbackLog') = ErrorCount(callbackLog) + 1 ]_vars

\* disconnect() was called while connecting, and the aborted socket's error
\* event was reported and left the state "error".
C11_ErrorAfterDisconnect ==
    /\ ~ws
    /\ sock = "CLOSING"
    /\ state = "error"
    /\ callbackLog = <<"onError:socket">>
    /\ sent = <<>>

\* C12: once the client socket's close or error event was delivered, the
\* upstream socket of the connection is closing or closed and never connecting
\* or open again, and no further frame is sent upstream.
C12_ClientGoneClosesUpstream ==
    [][ /\ clientGone' => geminiWs' \in {"CLOSING", "CLOSED"}
        /\ clientGone => toGemini' = toGemini ]_vars

\* The client went away on a session that had forwarded a frame upstream and
\* still holds a queued one; the upstream socket is closed.
C12_Witness ==
    /\ clientGone
    /\ clientWs = "CLOSED"
    /\ geminiWs = "CLOSED"
    /\ Len(toGemini) >= 1
    /\ queue # <<>>

IsUpstreamFrame(e) == e.k = "upstream"

\* The frames of the upstream as they were passed on to the client.
Forwarded(log) == SelectSeq(log, IsUpstreamFrame)

\* Upstream half of C13: a frame received from the upstream while the client
\* socket is open is passed on once, as received, behind the earlier ones, and
\* no other step passes on, repeats, alters or reorders an upstream frame.
UpstreamForwardedOnce ==
    IF upCount' = upCount + 1 /\ clientWs = "OPEN"
    THEN \E m \in UpstreamMsgs :
            Forwarded(toClient') =
                Append(Forwarded(toClient), Frame("upstream", m.kind, "", upCount'))
    ELSE Forwarded(toClient') = Forwarded(toClient)

\* C13 as stated, for the content of the frames: every frame the relay sends
\* or queues for the upstream has the content it was received with, and every
\* upstream frame is forwarded to an open client exactly once, unchanged and
\* in arrival order.
C13_Original ==
    [][ /\ \A i \in DOMAIN toGemini' : toGemini'[i].enc = toGemini'[i].recv
        /\ \A i \in DOMAIN queue' : queue'[i].enc = queue'[i].recv
        /\ UpstreamForwardedOnce ]_vars

\* C13 (what the relay does): a client frame that parses as JSON is sent
\* upstream as its re-serialisation, JSON.stringify(JSON.parse(data)), and only
\* a frame that does not parse keeps its content; the upstream half holds as
\* stated.
C13_ForwardedReserialised ==
    [][ /\ \A i \in DOMAIN toGemini' :
              toGemini'[i].enc = Outbound(
                  [id |-> toGemini'[i].id, type |-> "DATA",
                   enc |-> toGemini'[i].recv]).enc
        /\ \A i \in DOMAIN queue' :
              queue'[i].enc = Outbound(
                  [id |-> queue'[i].id, type |-> "DATA", enc |-> queue'[i].recv]).enc
        /\ UpstreamForwardedOnce ]_vars

\* A JSON frame that the client sent with insignificant whitespace went
\* upstream without it, after a frame of the upstream was forwarded.
C13_ReserialisedFrameSent ==
    /\ \E i \in DOMAIN toGemini :
          toGemini[i].recv = "spaced" /\ toGemini[i].enc = "compact"
    /\ Len(Forwarded(toClient)) = 1

\* The relay handles a CANCEL_EDIT_CONFIRM frame in this step.
CancelReceived ==
    \E d \in ClientFrames : d.type = "CANCEL_EDIT_CONFIRM" /\ ClientMessage(d)

CancelLeavesEditAlone ==
    UNCHANGED <<editInProgress, editVersionCounter, queue, editCalls, editLog,
                toGemini, toClient, clientWs, geminiWs, geminiConnected>>

\* C14 as stated: every CANCEL_EDIT_CONFIRM frame makes the relay send
\* EDIT_CONFIRM_CANCELLED to the client and changes nothing else.
C14_Original ==
    [][ CancelReceived =>
          /\ appEvents' = Append(appEvents, Frame("EDIT_CONFIRM_CANCELLED", "", "", 0))
          /\ CancelLeavesEditAlone ]_vars

\* C14 (amended): a CANCEL_EDIT_CONFIRM frame makes the relay send
\* EDIT_CONFIRM_CANCELLED if the client socket is open and nothing if it is
\* not; the edit-in-flight flag, the version counter, the queue and the
\* collaborator calls in progress are unchanged, so an edit in flight still
\* ends with its own terminal event.
C14_CancelOnlyAcknowledged ==
    [][ CancelReceived =>
          /\ appEvents' =
                IF clientWs = "OPEN"
                THEN Append(appEvents, Frame("EDIT_CONFIRM_CANCELLED", "", "", 0))
                ELSE appEvents
          /\ CancelLeavesEditAlone ]_vars

\* A cancel arrived while an edit was in flight; the edit completed after it.
C14_Witness ==
    /\ ~editInProgress
    /\ appEvents = <<Frame("EDIT_STATUS", "make it warmer", "editing", 0),
                     Frame("EDIT_CONFIRM_CANCELLED", "", "", 0),
                     Frame("EDIT_COMPLETED", "make it warmer", "BBB", 1)>>

(***************************************************************************)
(* Properties of the chat page.                                            *)
(***************************************************************************)
IsConfirmFrame(f) == f.type = "CONFIRM_EDIT"

\* The CONFIRM_EDIT frames among the frames a session sent.
ConfirmFrames(log) == SelectSeq(log, IsConfirmFrame)

\* The page pressed confirm in this step.
ConfirmPressed == Len(confirmLog') = Len(confirmLog) + 1

\* C15: the page holds one pending instruction; an instruction detected
\* while another is pending, by an intent-extraction reply or by a
\* REQUIRE_EDIT_CONFIRM event in either order, replaces it or is dropped;
\* one confirm sends at most one CONFIRM_EDIT frame, CONFIRM_EDIT frames are
\* sent by nothing else, and the relay starts at most one edit per frame it
\* received.
C15_OnePendingInstruction ==
    [][ /\ \A reply \in IntentReplies :
              IntentReply(reply) =>
                  pendingEditPrompt' \in {pendingEditPrompt, trim(reply)}
        /\ \A instr \in RequiredInstructions :
              RequireEditConfirm(instr) =>
                  pendingEditPrompt' \in {pendingEditPrompt, trim(instr)}
        /\ ConfirmPressed =>
              /\ Len(ConfirmFrames(pageSent')) <= Len(ConfirmFrames(pageSent)) + 1
              /\ pageSent' \in {pageSent,
                                Append(pageSent,
                                       [type |-> "CONFIRM_EDIT", enc |-> "compact",
                                        instr |-> pendingEditPrompt,
                                        img |-> activeImage])}
        /\ ~ConfirmPressed => ConfirmFrames(pageSent') = ConfirmFrames(pageSent)
        /\ Len(editLog') <= Len(ConfirmFrames(SubSeq(pageSent', 1, recvCount'))) ]_vars

\* An intent-extraction reply and a REQUIRE_EDIT_CONFIRM event named different
\* instructions, the later one replaced the earlier one, and the one confirm
\* that followed started one edit, for the later instruction.
C15_Witness ==
    /\ overwritten
    /\ Len(confirmLog) = 1
    /\ Len(ConfirmFrames(pageSent)) = 1
    /\ Len(editLog) = 1
    /\ editLog[1] = normalizeWhitespace(confirmLog[1].instruction)

\* The page handled the EDIT_COMPLETED or EDIT_FAILED event of an edit.
EditSettled ==
    /\ appEventsSeen' = appEventsSeen + 1
    /\ appEvents[appEventsSeen + 1].k \in {"EDIT_COMPLETED", "EDIT_FAILED"}

\* The confirm pressed in this step sent its CONFIRM_EDIT frame.
EditIssued ==
    ConfirmPressed /\ Len(ConfirmFrames(pageSent')) > Len(ConfirmFrames(pageSent))

\* C16 as stated: when confirm issues the edit audio capture has been
\* stopped, and when the edit completes, with success or with failure, audio
\* capture runs again and the page has left the editing state.
C16_Original ==
    [][ /\ EditIssued => ~capturing'
        /\ EditSettled =>
              /\ capturing'
              /\ ~isEditing'
              /\ sessionState' # "editing" ]_vars

\* C16 (what the page does): confirm and the completion of an edit leave
\* audio capture as it was, and the completion clears isEditing.
C16_CaptureUntouched ==
    [][ /\ ConfirmPressed => capturing' = capturing
        /\ EditSettled => (capturing' = capturing /\ ~isEditing') ]_vars

\* An edit was confirmed while audio capture ran, the relay has it in flight,
\* and capture is still running.
C16_CaptureRunsDuringEdit ==
    /\ Len(confirmLog) = 1
    /\ confirmLog[1].capturing
    /\ confirmLog[1].sent
    /\ capturing
    /\ isEditing
    /\ editInProgress
    /\ Len(editCalls) = 1

\* The page handled an EDIT_FAILED event.
EditFailureHandled ==
    /\ appEventsSeen' = appEventsSeen + 1
    /\ appEvents[appEventsSeen + 1].k = "EDIT_FAILED"

\* An instruction the user confirmed, as the relay names it, is pending and
\* its prompt is to be shown.
Reoffered(prompt, show) ==
    /\ show
    /\ \E i \in DOMAIN confirmLog :
          prompt = normalizeWhitespace(confirmLog[i].instruction)

\* C17 as stated: whenever the page receives EDIT_FAILED for a confirmed
\* edit, the confirmed instruction is pending again and its prompt is shown.
C17_Original ==
    [][ EditFailureHandled => Reoffered(pendingEditPrompt', showEditConfirm') ]_vars

\* C17 (what the page does): an EDIT_FAILED event that names its instruction
\* makes that instruction pending and shows the prompt; one without an
\* instruction changes neither.
C17_ReofferedWhenNamed ==
    [][ EditFailureHandled =>
            IF appEvents[appEventsSeen + 1].a # ""
            THEN Reoffered(pendingEditPrompt', showEditConfirm')
            ELSE /\ pendingEditPrompt' = pendingEditPrompt
                 /\ showEditConfirm' = showEditConfirm ]_vars

\* The relay rejected a confirmed edit for its empty image payload, the page
\* handled that EDIT_FAILED, and the instruction stays pending with its
\* prompt hidden.
C17_FailedEditNotReoffered ==
    /\ appEventsSeen = 1
    /\ appEvents[1].k = "EDIT_FAILED"
    /\ appEvents[1].a = ""
    /\ Len(confirmLog) = 1
    /\ pendingEditPrompt = confirmLog[1].instruction
    /\ ~showEditConfirm
    /\ ~isEditing
    /\ ~queuedEditConfirm
    /\ sessionConnected

\* The frame session.cancelEditConfirm() builds.
CancelFrame ==
    [type |-> "CANCEL_EDIT_CONFIRM", enc |-> "compact", instr |-> "", img |-> ""]

\* The relay received a CANCEL_EDIT_CONFIRM frame of the page in this step.
CancelDelivered ==
    RelayReceives /\ pageSent[recvCount + 1].type = "CANCEL_EDIT_CONFIRM"

\* C18 as stated: cancel clears the pending instruction and its prompt,
\* sends CANCEL_EDIT_CONFIRM to the relay, and leads to no call of the edit
\* collaborator.
C18_Original ==
    [][ /\ handleCancelEdit =>
              /\ pendingEditPrompt' = ""
              /\ ~showEditConfirm'
              /\ pageSent' = Append(pageSent, CancelFrame)
              /\ editLog' = editLog
        /\ CancelDelivered => editLog' = editLog ]_vars

\* C18 (what the page does): as stated, except that the frame is sent only
\* while the session is connected; with the session gone cancel sends
\* nothing.
C18_CancelClearsAndNotifies ==
    [][ /\ handleCancelEdit =>
              /\ pendingEditPrompt' = ""
              /\ ~showEditConfirm'
              /\ pageSent' = IF sessionConnected
                             THEN Append(pageSent, CancelFrame) ELSE pageSent
              /\ editLog' = editLog
              /\ confirmLog' = confirmLog
        /\ CancelDelivered => (editLog' = editLog /\ editCalls' = editCalls) ]_vars

\* The one detected instruction was cancelled: the relay received the cancel
\* frame and acknowledged it, nothing is pending, and the collaborator was
\* never called.
C18_Witness ==
    /\ pageSent = <<CancelFrame>>
    /\ recvCount = 1
    /\ Len(appEvents) = 1
    /\ appEvents[1].k = "EDIT_CONFIRM_CANCELLED"
    /\ pendingEditPrompt = ""
    /\ ~showEditConfirm
    /\ intentInFlight = 0
    /\ editLog = <<>>
    /\ confirmLog = <<>>

\* C19: startLiveSession makes at most three connect attempts, in the order
\* proxy, proxy retry, direct with a token; an attempt is made only after
\* every earlier one failed, the fallbacks only when a proxy is configured,
\* and every attempt uses its own session instance.
C19_FallbackLadder ==
    /\ Len(attempts) <= 3
    /\ \A i \in DOMAIN attempts :
          /\ \A j \in 1..(i - 1) : attempts[j].outcome = "failed"
          /\ \A j \in 1..(i - 1) : attempts[j].instance # attempts[i].instance
          /\ i = 1 => attempts[i].mode = IF proxyConfigured THEN "proxy" ELSE "direct"
          /\ i > 1 => proxyConfigured
          /\ i = 2 => (attempts[i].mode = "proxy" /\ attempts[i].credential = "__proxy__")
          /\ i = 3 => (attempts[i].mode = "direct" /\ attempts[i].credential = "token")
    /\ liveSessionRef = Len(attempts)
    /\ ladder \in {"connect1", "connect2", "connect3"} =>
          attempts[Len(attempts)].outcome = "pending"

\* Both proxy attempts failed, a token was obtained, and the direct attempt,
\* on a third session instance, connected.
C19_Witness ==
    /\ Len(attempts) = 3
    /\ attempts[1].outcome = "failed"
    /\ attempts[2].outcome = "failed"
    /\ attempts[3].outcome = "ok"
    /\ attempts[3].instance = 3
    /\ sessionConnected
    /\ sessionMode = "direct"
    /\ ladder = "done"

\* The session was disconnected and its socket has closed.
SessionClosed == ~ws /\ sock = "CLOSED" /\ state = "disconnected"

\* C20 as stated: a session instance never has more than one capture graph,
\* and once it was disconnected and its socket closed, no capture graph, no
\* microphone stream and no playback context of it is open.
C20_Original ==
    /\ liveProcessors <= 1
    /\ SessionClosed =>
          /\ liveProcessors = 0
          /\ ~mediaStream
          /\ ~inputAudioContext
          /\ ~audioContext

\* C20 (what the session does): with startAudioInput() calls that do not
\* overlap, disconnect() leaves no capture graph and no microphone stream,
\* and the close event of the socket leaves no playback context.
C20_TeardownAtDisconnect ==
    [][ /\ DisconnectStep =>
              (liveProcessors' = 0 /\ ~mediaStream' /\ ~inputAudioContext')
        /\ (sock # "CLOSED" /\ sock' = "CLOSED") => ~audioContext' ]_vars

\* disconnect() ran while startAudioInput() waited for the microphone, the
\* socket closed, and the microphone was granted afterwards: the closed
\* session holds a running capture graph.
C20_CaptureGraphAfterClose ==
    /\ SessionClosed
    /\ setupSeen
    /\ micCalls = 0
    /\ liveProcessors = 1
    /\ mediaStream
    /\ processorNode
    /\ inputAudioContext
    /\ ~audioContext

(***************************************************************************)
(* Playback of the assistant's audio.                                      *)
(***************************************************************************)
\* A source that is heard now or will be: its ended event has not fired, it
\* was not stopped, and the clock has not reached the end of its buffer.
Audible(id) ==
    /\ id \in liveSources
    /\ id \notin stoppedSources
    /\ currentTime < bufferSources[id].end

NothingAudible == \A id \in DOMAIN bufferSources : ~Audible(id)

\* interrupt(), or a server message flagged interrupted, is handled.
InterruptStep ==
    \/ Interrupt
    \/ \E c \in ContentMsgs : c.interrupted /\ WsContent(c)

\* The step creates buffer sources.
SourcesCreated == Len(bufferSources') > Len(bufferSources)

\* C21: interrupt() and a server message flagged interrupted leave the
\* playback queue empty, no buffer source audible and the schedule reset, and
\* the first buffer scheduled on a reset schedule starts at the clock's
\* current time.
C21_InterruptResetsPlayback ==
    [][ /\ InterruptStep
           => /\ audioQueue' = <<>>
              /\ scheduledSources' = {}
              /\ NothingAudible'
              /\ nextPlayTime' = 0
              /\ ~isPlaying'
        /\ (SourcesCreated /\ nextPlayTime = 0)
           => bufferSources'[Len(bufferSources) + 1].start = currentTime ]_vars

\* Audio that arrived after an interruption plays from the time it arrived,
\* before the time the interrupted audio would have ended.
C21_Witness ==
    \E i, j \in DOMAIN bufferSources :
        /\ i < j
        /\ i \in stoppedSources
        /\ Audible(j)
        /\ bufferSources[j].start > 0
        /\ bufferSources[j].start < bufferSources[i].end

\* How often a callback was invoked.
CallbackCount(log, name) == Cardinality({i \in DOMAIN log : log[i] = name})

\* The step invokes onPlaybackComplete.
PlaybackCompleteFired ==
    CallbackCount(callbackLog', "onPlaybackComplete")
        > CallbackCount(callbackLog, "onPlaybackComplete")

\* C22: onPlaybackComplete is invoked only when, after the step, the audio
\* queue is empty, no source is scheduled and no buffer source is audible.
C22_CompleteOnlyWhenSilent ==
    [][ PlaybackCompleteFired
           => /\ audioQueue' = <<>>
              /\ scheduledSources' = {}
              /\ NothingAudible'
              /\ ~isPlaying' ]_vars

\* Three buffers played to their ends, and the callback was invoked once.
C22_Witness ==
    /\ Len(bufferSources) >= 3
    /\ stoppedSources = {}
    /\ liveSources = {}
    /\ CallbackCount(callbackLog, "onPlaybackComplete") = 1

\* The durations of the audio buffers a serverContent message carries, in
\* the order handleMessage queues them.
RECURSIVE PartDurations(_)
PartDurations(parts) ==
    IF parts = <<>> THEN <<>>
    ELSE (IF Head(parts).kind = "audio" THEN <<Head(parts).duration>> ELSE <<>>)
             \o PartDurations(Tail(parts))

AudioDurations(c) ==
    PartDurations(c.parts)
        \o (IF c.audioContent > 0 THEN <<c.audioContent>> ELSE <<>>)

\* C23: the N buffers of a message become the next N buffer sources, in
\* arrival order; each starts at the later of the clock and the end of the
\* buffer before it (the clock alone for the first buffer of a session or
\* after stopPlayback), and ends one buffer duration after its start.
C23_GaplessSchedule ==
    [][ \A c \in ContentMsgs :
          WsContent(c) =>
            LET d == AudioDurations(c)
                k == Len(bufferSources)
            IN  /\ Len(bufferSources') = k + Len(d)
                /\ \A i \in 1..k : bufferSources'[i] = bufferSources[i]
                /\ \A i \in 1..Len(d) :
                     LET this == bufferSources'[k + i]
                         previousEnd ==
                             IF i = 1 /\ nextPlayTime = 0 THEN 0
                             ELSE bufferSources'[k + i - 1].end
                     IN  /\ this.start = Max(currentTime, previousEnd)
                         /\ this.end = this.start + d[i] ]_vars

\* Three buffers, none stopped: one follows its predecessor without a gap,
\* one starts later because the clock had passed its predecessor's end.
C23_Witness ==
    /\ Len(bufferSources) >= 3
    /\ stoppedSources = {}
    /\ \E j \in 2..Len(bufferSources) :
          bufferSources[j].start = bufferSources[j - 1].end
    /\ \E j \in 2..Len(bufferSources) :
          bufferSources[j].start > bufferSources[j - 1].end

(***************************************************************************)
(* The speech gate.                                                        *)
(***************************************************************************)
\* The latest speech frame among the first i callbacks (0: none).
LastSpeech(i) ==
    LET speech == {j \in 1..i : frameLog[j].speech}
    IN  IF speech = {} THEN 0 ELSE CHOOSE j \in speech : \A k \in speech : k <= j

\* C24: a frame the gate decided on is closed if no speech frame came before
\* it, and otherwise open exactly if its time is less than the hold window
\* after the time of the latest speech frame (itself, if it is speech).
C24_GateHysteresis ==
    \A i \in DOMAIN frameLog :
        frameLog[i].reported =>
            IF LastSpeech(i) = 0
            THEN ~frameLog[i].open
            ELSE frameLog[i].open
                   <=> (frameLog[i].now - frameLog[LastSpeech(i)].now < gateHoldMs)

\* A closed frame, a speech frame, a quieter frame inside the hold window
\* with the gate open, and a quiet frame at the end of the window with the
\* gate closed.
C24_Witness ==
    /\ Len(frameLog) = 4
    /\ \A i \in 1..4 : frameLog[i].reported
    /\ ~frameLog[1].speech /\ ~frameLog[1].open
    /\ frameLog[2].speech /\ frameLog[2].open
    /\ ~frameLog[3].speech /\ frameLog[3].open
    /\ ~frameLog[4].speech /\ ~frameLog[4].open
    /\ frameLog[4].now - frameLog[2].now = gateHoldMs

\* The realtimeInput frames sent so far.
AudioFramesSent ==
    SelectSeq(sent, LAMBDA f : f \in {"realtimeInput:audio", "realtimeInput:silence"})

\* C25, as stated: every frame captured while connected puts exactly one
\* realtimeInput frame on the socket, the samples if the gate is open and
\* silence if it is closed, and a closed gate reports level 0.
C25_Original ==
    /\ \A i \in DOMAIN frameLog :
          frameLog[i].connected =>
             /\ frameLog[i].reported
             /\ frameLog[i].frame = IF frameLog[i].open THEN "realtimeInput:audio"
                                    ELSE "realtimeInput:silence"
             /\ ~frameLog[i].open => frameLog[i].level = 0
    /\ Len(AudioFramesSent)
          = Cardinality({i \in DOMAIN frameLog : frameLog[i].connected})

\* A frame the gate decided on is sent once, as samples if the gate is open
\* and as silence with level 0 if it is closed.
C25_DecidedFramesSent ==
    /\ \A i \in DOMAIN frameLog :
          frameLog[i].reported =>
             /\ frameLog[i].frame = IF frameLog[i].open THEN "realtimeInput:audio"
                                    ELSE "realtimeInput:silence"
             /\ ~frameLog[i].open => frameLog[i].level = 0
    /\ Len(AudioFramesSent)
          = Cardinality({i \in DOMAIN frameLog : frameLog[i].reported})

\* A frame captured while connected was dropped between two frames that
\* were sent: nothing was put on the socket for it and no level reported.
C25_FrameDropped ==
    /\ Len(frameLog) = 3
    /\ \A i \in 1..3 : frameLog[i].connected
    /\ frameLog[1].frame = "realtimeInput:silence"
    /\ frameLog[2].frame = "none" /\ ~frameLog[2].reported
    /\ frameLog[3].frame = "realtimeInput:audio"
    /\ Len(AudioFramesSent) = 2

(***************************************************************************)
(* Transcripts.                                                            *)
(***************************************************************************)
\* The transcript frames among the first n frames the relay sent.
TranscriptFrames(n) ==
    SelectSeq(SubSeq(toClient, 1, n), LAMBDA f : f.k = "transcript")

\* No entry of the log repeats the entry before it.
NoAdjacentRepeat(entries) ==
    \A i \in 2..Len(entries) :
        ~(entries[i].role = entries[i - 1].role
            /\ entries[i].text = entries[i - 1].text)

Discovered(raw) ==
    LET user == <<[role |-> "user", text |-> normalizeWhitespace(raw.input.text),
                   isFinal |-> FinalFlag(raw.input, raw.inputFallbackFinal)]>>
        spoken == SelectSeq(raw.parts, LAMBDA part : ~part.thought)
        parts == [i \in 1..Len(spoken) |->
                    [role |-> "ai", text |-> sanitizeAssistantText(spoken[i].text),
                     isFinal |-> raw.turnComplete]]
        output == <<[role |-> "ai", text |-> sanitizeAssistantText(raw.output.text),
                     isFinal |-> FinalFlag(raw.output, raw.turnComplete)]>>
    IN  SelectSeq(user \o parts \o output, LAMBDA e : e.text # "")

\* Where an event is first met.
FirstIndex(events, e) ==
    CHOOSE i \in DOMAIN events :
        events[i] = e /\ \A j \in 1..(i - 1) : events[j] # e

\* C27: the events of one call hold no two events of the same role, finality
\* and text and no event with empty text, hold every event the message
\* gives rise to, and keep the order in which they were met.
C27_EventsDistinctOrdered ==
    [][ \A raw \in UpstreamContents :
          GeminiContent(raw) =>
            LET events == extractTranscriptEvents(raw)
                met == Discovered(raw)
            IN  /\ \A i, j \in DOMAIN events : i # j => events[i] # events[j]
                /\ \A i \in DOMAIN events : events[i].text # ""
                /\ {events[i] : i \in DOMAIN events} = {met[i] : i \in DOMAIN met}
                /\ \A i, j \in DOMAIN events :
                     i < j => FirstIndex(met, events[i]) < FirstIndex(met, events[j])
      ]_vars

\* The relay has handled a message in which the same assistant text was met
\* three times, and sent one transcript frame for it.
C27_Witness ==
    \E raw \in UpstreamContents :
        /\ Len(Discovered(raw)) = 3
        /\ Len(extractTranscriptEvents(raw)) = 1
        /\ upCount = 2
        /\ Len(toClient) = 6
        /\ toClient[5] = Frame("upstream", "content", "", 2)
        /\ EntryOf(toClient[6]) = extractTranscriptEvents(raw)[1]

\* The latest transcript frame of a role in a log of frames (none: a final
\* frame with empty text, which the relay never sends).
LastOfRole(frames, role) ==
    LET own == SelectSeq(frames, LAMBDA f : f.k = "transcript" /\ f.a = role)
    IN  IF own = <<>> THEN Frame("transcript", role, "", 1) ELSE own[Len(own)]

\* The frame the relay sends for a transcript event.
FrameOfEvent(e) == Frame("transcript", e.role, e.text, IF e.isFinal THEN 1 ELSE 0)

\* The transcript frames due for the events of one message, after the frames
\* sent so far: every final event, and every partial event except one whose
\* text is that of the latest frame sent for its role when that frame is a
\* partial too.
RECURSIVE FramesDue(_, _)
FramesDue(sentSoFar, events) ==
    IF events = <<>> THEN <<>>
    ELSE LET e == Head(events)
             latest == LastOfRole(sentSoFar, e.role)
             repeated == ~e.isFinal /\ latest.n = 0 /\ latest.b = e.text
         IN  IF repeated THEN FramesDue(sentSoFar, Tail(events))
             ELSE <<FrameOfEvent(e)>>
                      \o FramesDue(Append(sentSoFar, FrameOfEvent(e)), Tail(events))

\* C28: for every upstream message the relay passes on the message and then
\* exactly the transcript frames due: a partial equal to the latest frame of
\* its role is left out if that frame was a partial and sent again if it was
\* a final, whatever was sent for the other role in between.
C28_PartialsNotRepeated ==
    [][ \A raw \in UpstreamContents :
          GeminiContent(raw) =>
            toClient' = toClient
                          \o <<Frame("upstream", "content", "", upCount + 1)>>
                          \o FramesDue(toClient, extractTranscriptEvents(raw)) ]_vars

\* Four upstream messages: the same partial of both roles twice, the user's
\* final, and the two partials again. The relay sent the two partials once,
\* the final, and then the user's partial again but not the assistant's.
C28_Witness ==
    /\ upCount = 5
    /\ LET t == TranscriptFrames(Len(toClient))
       IN  t = << Frame("transcript", "user", "hi", 0),
                  Frame("transcript", "ai", "hi", 0),
                  Frame("transcript", "user", "hi", 1),
                  Frame("transcript", "user", "hi", 0) >>
    /\ Len(toClient) = 4 + 4 + 4

(***************************************************************************)
(* Frames of the open session.                                             *)
(***************************************************************************)
\* C29: an error frame received while connected invokes onError once and
\* nothing else: the state, the socket, the handshake flags, the capture
\* graph with its gate, the playback queue and schedule, and what was sent
\* stay as they are.
C29_ErrorFrameOnlyReported ==
    [][ (state = "connected" /\ WsErrorFrame)
          => /\ callbackLog' = Append(callbackLog, "onError:frame")
             /\ state' = "connected"
             /\ UNCHANGED <<ws, sock, audioContext, setupCompleted,
                            intentionalClose, connectResolve, setupTimeout,
                            timerPending, promise, audioVars, playbackVars,
                            micCalls, startCount, sent, frameLog,
                            stateTrace>> ]_vars

\* An error frame arrived while the assistant's audio was playing and the
\* microphone was captured; the session is connected, the socket open, the
\* source still scheduled, the processor attached.
C29_Witness ==
    /\ callbackLog = <<"onConnected", "onAudioReceived", "onError:frame">>
    /\ state = "connected"
    /\ sock = "OPEN"
    /\ isPlaying
    /\ \E id \in scheduledSources : Audible(id)
    /\ processorNode
    /\ liveProcessors = 1
    /\ frameLog # <<>>

(***************************************************************************)
(* Callback order within one server message.                               *)
(***************************************************************************)
\* The message has a text part or a transcription.
CarriesText(c) ==
    \/ c.outputTranscription
    \/ c.inputTranscription
    \/ \E i \in DOMAIN c.parts : c.parts[i].kind = "text"

\* The callbacks one step appended to the log.
Invoked == SubSeq(callbackLog', Len(callbackLog) + 1, Len(callbackLog'))

\* C30: handling one message that carries text or a transcription and the
\* turn-complete flag invokes onTurnComplete exactly once, and after every
\* onTextReceived and onUserTranscription of that message.
C30_TextBeforeTurnComplete ==
    [][ \A c \in ContentMsgs :
          (c.turnComplete /\ CarriesText(c) /\ WsContent(c))
            => /\ SubSeq(callbackLog', 1, Len(callbackLog)) = callbackLog
               /\ CallbackCount(Invoked, "onTurnComplete") = 1
               /\ \E i \in DOMAIN Invoked :
                     Invoked[i] \in {"onTextReceived", "onUserTranscription"}
               /\ \A i, j \in DOMAIN Invoked :
                     (/\ Invoked[i] \in {"onTextReceived", "onUserTranscription"}
                      /\ Invoked[j] = "onTurnComplete") => i < j ]_vars

\* A message with a text part, an input transcription and the turn-complete
\* flag was handled: both text callbacks, then the turn-complete callback.
C30_Witness ==
    /\ Len(callbackLog) >= 3
    /\ SubSeq(callbackLog, Len(callbackLog) - 2, Len(callbackLog))
         = <<"onTextReceived", "onUserTranscription", "onTurnComplete">>

(***************************************************************************)
(* PCM16 round trip.                                                       *)
(***************************************************************************)
Abs(n) == IF n >= 0 THEN n ELSE 0 - n

\* 1/32768 in units of 1 / SampleDen.
Step == SampleDen \div DecodeScale

\* |x - y| in units of 1 / SampleDen, for the clamped input x = n / SampleDen
\* and the decoded y = v / DecodeScale.
RoundTripError(n, v) == Abs(Clamp(n) - v * Step)

\* C31, as stated: every decoded sample is within 1/32768 of the clamped
\* input sample.
C31_Original ==
    \A i \in DOMAIN float32Array :
        RoundTripError(float32Data[i], float32Array[i]) <= Step

\* C31, what the conversions give: a negative sample comes back within
\* 1/32768, a non-negative one within less than 2/32768, and a sample
\* outside [-1, 1] is encoded as the end of the range.
C31_RoundTripWithinTwoSteps ==
    /\ \A i \in DOMAIN float32Array :
          IF float32Data[i] < 0
          THEN RoundTripError(float32Data[i], float32Array[i]) <= Step
          ELSE RoundTripError(float32Data[i], float32Array[i]) < 2 * Step
    /\ int16Data # <<>> => int16Data = encode(<<Clamp(float32Data[1])>>)

\* The sample 9 * 4099 / 65536 (about 0.563) was encoded as 18444 and decoded
\* as 18444 / 32768: 1.5 / 32768 below the sample.
C31_ErrorAboveOneStep ==
    /\ float32Data = <<9 * SampleStride>>
    /\ float32Array = <<18444>>
    /\ RoundTripError(float32Data[1], float32Array[1]) > Step

\* A sample above 1 was encoded as 32767 and one below -1 as -32768.
C31_Clamped ==
    /\ float32Array # <<>>
    /\ \/ float32Data[1] > SampleDen /\ float32Array = <<32767>>
       \/ float32Data[1] < 0 - SampleDen /\ float32Array = <<0 - 32768>>

(***************************************************************************)
(* Control verbs of the relay.                                             *)
(***************************************************************************)
ControlVerbs == {"CONFIRM_EDIT", "CANCEL_EDIT_CONFIRM"}

NoControlVerb(frames) == \A i \in DOMAIN frames : frames[i].type \notin ControlVerbs

\* C32: handling a CONFIRM_EDIT or CANCEL_EDIT_CONFIRM frame sends nothing to
\* the upstream and queues nothing, with the upstream open or not; no step
\* puts such a frame among the frames sent upstream or in the queue.
C32_ControlVerbsConsumed ==
    [][ /\ \A d \in ClientFrames :
             (d.type \in ControlVerbs /\ ClientMessage(d))
                => UNCHANGED <<toGemini, queue, pushed, flushed>>
        /\ NoControlVerb(toGemini')
        /\ NoControlVerb(queue')
        /\ NoControlVerb(pushed') ]_vars

\* Both verbs were handled before the upstream opened, and a data frame after
\* them: the queue holds the data frame only.
C32_Witness ==
    /\ ~geminiConnected
    /\ recvCount = 3
    /\ confirmCount = 1
    /\ \E i \in DOMAIN appEvents : appEvents[i].k = "EDIT_CONFIRM_CANCELLED"
    /\ Len(queue) = 1
    /\ queue[1].type = "DATA"
    /\ toGemini = <<>>

(***************************************************************************)
(* Version labels of one relay connection.                                 *)
(***************************************************************************)
IsCompleted(e) == e.k = "EDIT_COMPLETED"

\* The EDIT_COMPLETED events sent to the client, in order.
Completed(log) == SelectSeq(log, IsCompleted)

\* versionLabel = `v${editVersionCounter}`
versionLabel(n) == <<"v", n>>

\* C33: the k-th EDIT_COMPLETED event of a connection carries the label vk;
\* the counter changes only when an edit succeeds, then by exactly one, and
\* not when an edit fails or a CONFIRM_EDIT or cancel frame is handled.
C33_VersionsConsecutive ==
    [][ /\ \A k \in DOMAIN Completed(appEvents') :
             versionLabel(Completed(appEvents')[k].n) = versionLabel(k)
        /\ IF \E i \in 1..MaxClientFrames : EditResolved(i)
           THEN editVersionCounter' = editVersionCounter + 1
           ELSE editVersionCounter' = editVersionCounter ]_vars

\* Two edits succeeded with a refused CONFIRM_EDIT between them: the events
\* are v1, EDIT_FAILED, v2.
C33_Witness ==
    /\ editVersionCounter = 2
    /\ Len(Completed(appEvents)) = 2
    /\ \E i, j, k \in DOMAIN appEvents :
          /\ i < j /\ j < k
          /\ appEvents[i].k = "EDIT_COMPLETED" /\ appEvents[i].n = 1
          /\ appEvents[j].k = "EDIT_FAILED"
          /\ appEvents[k].k = "EDIT_COMPLETED" /\ appEvents[k].n = 2

(***************************************************************************)
(* CONFIRM_EDIT frames without image data or instruction.                  *)
(***************************************************************************)
\* The CONFIRM_EDIT frames whose image data or instruction is only
\* whitespace.
BlankConfirms ==
    {d \in ClientFrames : d.type = "CONFIRM_EDIT" /\ (d.img = " " \/ d.instr = " ")}

MissingInput == Frame("EDIT_FAILED", "", "Missing image data or edit instruction.", 0)

BlankConfirmLeavesEditAlone ==
    UNCHANGED <<editInProgress, editVersionCounter, editCalls, editLog, queue,
                toGemini>>

\* C34, as stated: such a frame received while no edit is in flight always
\* produces one EDIT_FAILED event and nothing else.
C34_Original ==
    [][ \A d \in BlankConfirms :
          (~editInProgress /\ ClientMessage(d))
             => /\ appEvents' = Append(appEvents, MissingInput)
                /\ BlankConfirmLeavesEditAlone ]_vars

\* C34: such a frame received while no edit is in flight produces one
\* EDIT_FAILED event and no EDIT_STATUS if the client socket is open (nothing
\* if it is closing), starts no collaborator call, and leaves the
\* edit-in-flight flag and the version counter unchanged.
C34_BlankConfirmRefused ==
    [][ \A d \in BlankConfirms :
          (~editInProgress /\ ClientMessage(d))
             => /\ appEvents' = IF clientWs = "OPEN"
                                THEN Append(appEvents, MissingInput)
                                ELSE appEvents
                /\ BlankConfirmLeavesEditAlone ]_vars

\* One CONFIRM_EDIT frame was received and refused: the only event is
\* EDIT_FAILED, no call was started, flag and counter are as at the start.
C34_Witness ==
    /\ confirmCount = 1
    /\ recvCount = 1
    /\ appEvents = <<MissingInput>>
    /\ editCalls = <<>>
    /\ editLog = <<>>
    /\ ~editInProgress
    /\ editVersionCounter = 0

(***************************************************************************)
(* The edit-in-flight flag after the collaborator answered.                *)
(***************************************************************************)
\* C35: once the collaborator answers, the edit-in-flight flag set by an
\* accepted CONFIRM_EDIT is cleared again, whatever happened to the client
\* socket meanwhile; an answer that arrives when the client socket is no
\* longer open clears the flag and sends nothing on it.
C35_FlagEventuallyCleared ==
    /\ editInProgress ~> ~editInProgress
    /\ [][ (clientWs # "OPEN" /\ (\E i \in 1..MaxClientFrames : EditResolved(i) \/ EditRejected(i)))
             => /\ ~editInProgress'
                /\ UNCHANGED <<appEvents, toClient, clientWs>> ]_vars

\* An edit was accepted, the client socket closed while it ran, then the
\* collaborator returned: the flag is clear, the result was counted but no
\* EDIT_COMPLETED event was sent.
C35_Witness ==
    /\ clientWs = "CLOSED"
    /\ editLog # <<>>
    /\ editCalls = <<>>
    /\ ~editInProgress
    /\ editVersionCounter = 1
    /\ appEvents = <<Frame("EDIT_STATUS", "make it warmer", "editing", 0)>>

(***************************************************************************)
(* The heartbeat of one relay connection.                                  *)
(***************************************************************************)
\* C36: there is never more than one interval, and heartbeatTimer holds it;
\* a run of the interval callback pinged the client socket exactly if it was
\* open, the upstream socket exactly if it was open, and found neither the
\* upstream socket closed nor the client socket closed or its close or error
\* event delivered.
C36_OneHeartbeatWhileOpen ==
    /\ liveTimers <= 1
    /\ heartbeatTimer <=> liveTimers = 1
    /\ \A i \in DOMAIN pings :
          /\ pings[i].client <=> pings[i].clientWs = "OPEN"
          /\ pings[i].upstream <=> pings[i].geminiWs = "OPEN"
          /\ pings[i].geminiWs # "CLOSED"
          /\ pings[i].clientWs # "CLOSED"
          /\ ~pings[i].clientGone
    /\ (geminiWs = "CLOSED" \/ clientWs = "CLOSED" \/ clientGone) => liveTimers = 0

\* The interval ran twice while both sockets were open and pinged both each
\* time, and was cleared when the upstream closed; nothing ran after that.
C36_Witness ==
    /\ Len(pings) = 2
    /\ \A i \in 1..2 : pings[i].client /\ pings[i].upstream
    /\ geminiWs = "CLOSED"
    /\ ~heartbeatTimer
    /\ liveTimers = 0

(***************************************************************************)
(* Late events of a session instance the ladder has abandoned.             *)
(***************************************************************************)
\* The close event of an instance older than the one the page holds.
OlderInstanceCloses ==
    \E id \in 1..MaxInstances : id < liveSessionRef /\ LateClose(id)

\* C37, as stated: the close event of a superseded instance leaves the
\* session state of the current attempt as it is.
C37_Original ==
    [][ OlderInstanceCloses => UNCHANGED sessionState ]_vars

\* The second attempt is still connecting, the first instance's close event
\* was delivered, and the page shows the session as idle.
C37_ResetByOlderClose ==
    /\ ladder = "connect2"
    /\ liveSessionRef = 2
    /\ pendingCloses = {}
    /\ Len(attempts) = 2
    /\ sessionState = "idle"

(***************************************************************************)
(* Error callbacks of one connection attempt.                              *)
(***************************************************************************)
\* onError invocations that report the connection, not the microphone.
ConnectionErrors(log) ==
    Cardinality({i \in DOMAIN log :
                   log[i] \in {"onError:connect", "onError:socket", "onError:frame",
                               "onError:closedBeforeSetup", "onError:setupTimeout"}})

\* The connect() call of this session did not reach "connected".
AttemptFailed == \A i \in DOMAIN stateTrace : stateTrace[i] # "connected"

\* C38, as stated: an attempt that did not reach "connected" has invoked
\* onError at most once.
C38_Original == AttemptFailed => ConnectionErrors(callbackLog) <= 1

\* The socket's error event and then its close event were delivered: onError
\* twice, then onDisconnected.
C38_ErrorThenCloseReportsTwice ==
    /\ AttemptFailed
    /\ callbackLog = <<"onError:socket", "onError:closedBeforeSetup", "onDisconnected">>

\* An error frame and then the close event before setupComplete: onError
\* twice as well.
C38_ErrorFrameThenClose ==
    /\ AttemptFailed
    /\ callbackLog = <<"onError:frame", "onError:closedBeforeSetup", "onDisconnected">>

(***************************************************************************)
(* Playback-complete callbacks per run of audio.                           *)
(***************************************************************************)
\* C39, as stated: between two onPlaybackComplete callbacks new audio was
\* received, so that one run of audio, drained or cut, completes at most
\* once.
C39_Original ==
    \A i, j \in DOMAIN callbackLog :
        (/\ i < j
         /\ callbackLog[i] = "onPlaybackComplete"
         /\ callbackLog[j] = "onPlaybackComplete")
           => \E k \in (i + 1)..(j - 1) : callbackLog[k] = "onAudioReceived"

\* The second half of C39: the ended event of a buffer that was stopped
\* leaves isPlaying and invokes no callback while a newer buffer is
\* scheduled.
C39_StoppedBufferLeavesNewerAudio ==
    [][ \A id \in 1..MaxBuffers :
          (id \in stoppedSources /\ scheduledSources # {} /\ SourceEnded(id))
             => UNCHANGED <<isPlaying, callbackLog, scheduledSources>> ]_vars

\* Two scheduled buffers were stopped by one interruption and both ended
\* events were delivered: onPlaybackComplete was invoked for each.
C39_CompleteForEachStoppedBuffer ==
    /\ Cardinality(stoppedSources) = 2
    /\ liveSources = {}
    /\ Len(bufferSources) = 2
    /\ CallbackCount(callbackLog, "onPlaybackComplete") = 2

(***************************************************************************)
(* C40: whenever the page enters the editing state through confirm, it     *)
(* eventually leaves it, also when the CONFIRM_EDIT frame was not sent     *)
(* because the session was no longer connected or was ignored by the       *)
(* relay because an edit was in flight.                                    *)
(***************************************************************************)
\* The last confirm press found the session not connected: confirmEdit
\* returned without sending.
ConfirmNotSent ==
    /\ confirmLog # <<>>
    /\ ~confirmLog[Len(confirmLog)].sent

\* Nothing is on its way to the page: every frame sent was handled by the
\* relay, every relay event was delivered, no edit is awaited and no
\* getUserMedia call is pending.
NothingInFlight ==
    /\ recvCount = Len(pageSent)
    /\ appEventsSeen = Len(appEvents)
    /\ ~editInProgress
    /\ micRequests = {}

\* C40 for a session of the relay: a page that is editing eventually is not.
C40_Original == (isEditing /\ sessionMode = "proxy") ~> ~isEditing

\* C40 when the frame was sent to the relay: the page leaves the editing
\* state.
C40_SentConfirmLeavesEditing ==
    (isEditing /\ sessionMode = "proxy" /\ ~ConfirmNotSent) ~> ~isEditing

\* The page is editing after a confirm that sent nothing, the session is
\* not connected and nothing is in flight.
C40_EditingWithNothingInFlight ==
    /\ isEditing
    /\ sessionMode = "proxy"
    /\ sessionState = "editing"
    /\ liveSessionRef # 0
    /\ ~sessionConnected
    /\ ConfirmNotSent
    /\ NothingInFlight

=============================================================================
